---------------------------- MODULE Spec2Model ----------------------------
(***************************************************************************)
(* Bynar's persistent ledger (src/src/in_progress.rs): host registration,  *)
(* hardware reconciliation, the operation / operation-detail ledger, the   *)
(* state & health store and the repair-ticket queries, over a relational   *)
(* store modelled as sets of rows with serial primary keys.                *)
(*                                                                         *)
(* Option<T> and SQL NULL are modelled as sets: {} is None / NULL and {v}  *)
(* is Some(v) / the value v.                                               *)
(***************************************************************************)
EXTENDS Integers, Sequences, FiniteSets, TLC

\* ----------------------------------------------------------------- bounds
\* Highest value a serial primary-key sequence may issue in a run.
MaxId == 3
\* Highest reading of the clock (Utc::now) in a run.
MaxTime == 4
MaxCalls == 3
\* Number of threads that call the ledger at the same time through one pool.
MaxCallers == 11

\* ---------------------------------------------------------------- domains
Pids == {100, 200}
DaemonPid == CHOOSE p \in Pids : \A q \in Pids : p <= q
Ips == {"10.0.0.1", "10.0.0.2"}

None == {}
Some(x) == {x}
Unwrap(o) == CHOOSE x \in o : TRUE

\* The rows of a result set in the order the driver hands them out.  Every
\* table is read in primary-key order; `key` names the serial column.
FirstBy(rows, key) == CHOOSE r \in rows : \A s \in rows : r[key] <= s[key]

VARIABLES
    process_manager,    \* rows (entry_id, pid, ip, status)
    regions,            \* rows (region_id, region_name)
    storage_types,      \* reference rows (storage_id, storage_type)
    storage_details,    \* rows (detail_id, storage_id, region_id, hostname, name_key1, name_key2)
    hardware_types,     \* reference rows (hardware_id, hardware_type)
    hardware,           \* rows (device_id, detail_id, device_path, device_name, state,
                        \*       hardware_type, mount_path, device_uuid, serial_number, smart_passed)
    operation_types,    \* reference rows (type_id, op_name)
    operations,         \* rows (operation_id, entry_id, device_id, behalf_of, reason,
                        \*       start_time, snapshot_time, done_time)
    operation_details,  \* rows (operation_detail_id, operation_id, type_id, status,
                        \*       tracking_id, start_time, snapshot_time, done_time)
    seq,                \* last value issued by each table's serial sequence
    now,                \* the clock read by Utc::now()
    disks,              \* the callers' BlockDevice structs: their device_database_id
    op_infos,           \* the callers' OperationInfo structs, None while not created
    op_details,         \* the callers' OperationDetail structs, None while not created
    ret,                \* the last call: its name, arguments and result
    returned,           \* history: entry_ids handed out per (pid, ip) by successful registrations
    reconciled,         \* history: device ids add_disk_detail has set, per disk struct
    saved,              \* history: pairs (device id, state) of the last save_state that
                        \* returned Ok for the id
    socket,             \* the client's request/reply socket: the request on its way
                        \* to the daemon and the reply on its way back
    call,               \* the request function that is blocked in recv_bytes, if any
    wire,               \* history: requests sent, replies received, results returned
    callers             \* the concurrent callers of the ledger: for each, the call it
                        \* is in, its position there, its connection, its
                        \* transaction and its locals

registrar_tables == <<process_manager, regions, storage_types, storage_details>>
hardware_tables == <<hardware_types, hardware>>
ledger_tables == <<operation_types, operations, operation_details>>
ledger_structs == <<now, op_infos, op_details>>
ledger == <<ledger_tables, ledger_structs>>
history == <<returned, reconciled, saved>>

rpc == <<socket, call, wire>>
clients == <<rpc, callers>>

vars == <<registrar_tables, hardware_tables, ledger_tables, seq, ledger_structs, disks,
          ret, history, clients>>

\* The hosts that register, as host_information gathers them (ip, region,
\* storage type, hostname, optional array and pool name): two hosts of one
\* region, and a host of another region whose storage type the reference
\* table may lack.
MyHost ==
    {[ip |-> "10.0.0.1", region |-> "us-east", storage_type |-> "ceph",
      hostname |-> "host-a", array_name |-> None, pool_name |-> None],
     [ip |-> "10.0.0.2", region |-> "us-east", storage_type |-> "ceph",
      hostname |-> "host-b", array_name |-> Some("array-1"), pool_name |-> None],
     [ip |-> "10.0.0.1", region |-> "us-west", storage_type |-> "scaleio",
      hostname |-> "host-a", array_name |-> None, pool_name |-> Some("pool-1")]}

\* ------------------------------------------------------ Identity Registrar
\* register_to_process_manager: SELECT by (pid, ip); on a hit UPDATE the
\* status of every matching row to 'idle' and return the first row's id,
\* otherwise INSERT ... RETURNING entry_id.  `conn` is the transaction's view
\* of process_manager, `last` the sequence's last value.
register_to_process_manager_no_lookup(conn, last, pid, ip) ==
    [table |-> conn \cup {[entry_id |-> last + 1, pid |-> pid, ip |-> ip,
                           status |-> "idle"]},
     last |-> last + 1, exists |-> FALSE,
     entry_id |-> last + 1]

register_to_process_manager(conn, last, pid, ip) ==
    LET stmt_query == {r \in conn : r.pid = pid /\ r.ip = ip}
    IN  IF stmt_query # {}
        THEN [table |-> {IF r.pid = pid /\ r.ip = ip
                            THEN [r EXCEPT !.status = "idle"] ELSE r : r \in conn},
              last |-> last, exists |-> TRUE,
              entry_id |-> FirstBy(stmt_query, "entry_id").entry_id]
        ELSE [table |-> conn \cup {[entry_id |-> last + 1, pid |-> pid, ip |-> ip,
                                     status |-> "idle"]},
              last |-> last + 1, exists |-> FALSE,
              entry_id |-> last + 1]

\* update_region: SELECT by region_name; return the first row's id, or
\* INSERT ... RETURNING region_id.
update_region(conn, last, region) ==
    LET stmt_query == {r \in conn : r.region_name = region}
    IN  IF stmt_query # {}
        THEN [table |-> conn, last |-> last,
              region_id |-> FirstBy(stmt_query, "region_id").region_id]
        ELSE [table |-> conn \cup {[region_id |-> last + 1, region_name |-> region]},
              last |-> last + 1,
              region_id |-> last + 1]

\* update_storage_details: the storage type must pre-exist (0 otherwise);
\* SELECT the detail row by (storage_id, region_id, hostname) or INSERT it,
\* with name_key1 / name_key2 only when the host has an array / pool name.
update_storage_details(types, conn, last, s_info, region_id) ==
    LET stmt_query == {r \in types : r.storage_type = s_info.storage_type}
    IN  IF stmt_query = {}
        THEN [table |-> conn, last |-> last, detail_id |-> 0]
        ELSE LET storage_id == FirstBy(stmt_query, "storage_id").storage_id
                 details == {r \in conn : /\ r.storage_id = storage_id
                                          /\ r.region_id = region_id
                                          /\ r.hostname = s_info.hostname}
             IN  IF details # {}
                 THEN [table |-> conn, last |-> last,
                       detail_id |-> FirstBy(details, "detail_id").detail_id]
                 ELSE [table |-> conn \cup {[detail_id |-> last + 1,
                                              storage_id |-> storage_id,
                                              region_id |-> region_id,
                                              hostname |-> s_info.hostname,
                                              name_key1 |-> s_info.array_name,
                                              name_key2 |-> s_info.pool_name]},
                       last |-> last + 1,
                       detail_id |-> last + 1]

\* What can go wrong in the store during a registration: nothing, a failing
\* statement in one of the three steps ('?' returns the error and the
\* transaction is dropped), or a failing COMMIT.
RegistrationFaults == {"none", "process_manager", "regions", "storage_details", "commit"}

set_commit_unconditionally(entry_id, region_id, detail_id) == TRUE

\* The branch of update_storage_info on the three ids: an error return
\* before set_commit() when one is zero, set_commit() otherwise.
set_commit(entry_id, region_id, detail_id) ==
    ~(entry_id = 0 \/ region_id = 0 \/ detail_id = 0)

\* update_storage_info: the three steps in one transaction that rolls back
\* unless set_commit() was called; a zero id returns an error before
\* set_commit(); the result of finish() is discarded.  Sequence values drawn
\* by a statement that ran are not given back by a rollback.
update_storage_info(pid, s_info, fault) ==
    LET t1 == register_to_process_manager(process_manager, seq.process_manager,
                                          pid, s_info.ip)
        t2 == update_region(regions, seq.regions, s_info.region)
        t3 == update_storage_details(storage_types, storage_details,
                                     seq.storage_details, s_info, t2.region_id)
        ran1 == fault # "process_manager"
        ran2 == ran1 /\ fault # "regions"
        ran3 == ran2 /\ fault # "storage_details"
        zero == t1.entry_id = 0 \/ t2.region_id = 0 \/ t3.detail_id = 0
        ok == ran3 /\ ~zero
        committed == /\ ran3
                     /\ set_commit(t1.entry_id, t2.region_id, t3.detail_id)
                     /\ fault # "commit"
    IN  /\ t1.last <= MaxId /\ t2.last <= MaxId /\ t3.last <= MaxId
        /\ seq' = [seq EXCEPT !.process_manager = IF ran1 THEN t1.last ELSE @,
                              !.regions = IF ran2 THEN t2.last ELSE @,
                              !.storage_details = IF ran3 THEN t3.last ELSE @]
        /\ process_manager' = IF committed THEN t1.table ELSE process_manager
        /\ regions' = IF committed THEN t2.table ELSE regions
        /\ storage_details' = IF committed THEN t3.table ELSE storage_details
        /\ ret' = IF ok
                  THEN [op |-> "update_storage_info", ok |-> TRUE, pid |-> pid,
                        s_info |-> s_info, fault |-> fault, exists |-> t1.exists,
                        entry_id |-> t1.entry_id, region_id |-> t2.region_id,
                        storage_detail_id |-> t3.detail_id]
                  ELSE [op |-> "update_storage_info", ok |-> FALSE, pid |-> pid,
                        s_info |-> s_info, fault |-> fault, zero |-> ran3 /\ zero]
        /\ returned' = IF ok
                       THEN [returned EXCEPT ![<<pid, s_info.ip>>] = @ \cup {t1.entry_id}]
                       ELSE returned
        /\ UNCHANGED <<clients, storage_types, hardware_tables, ledger, disks, reconciled, saved>>

deregister_deletes ==
    /\ process_manager' = {r \in process_manager : r.ip \notin Ips}
    /\ ret' = [op |-> "deregister_from_process_manager", ok |-> TRUE]
    /\ UNCHANGED <<clients, regions, storage_types, storage_details, hardware_tables,
                   ledger, seq, disks, history>>

\* deregister_from_process_manager: a stub that returns Ok(()); its DELETE
\* is a comment.
deregister_from_process_manager ==
    /\ ret' = [op |-> "deregister_from_process_manager", ok |-> TRUE]
    /\ UNCHANGED <<clients, registrar_tables, hardware_tables, ledger, seq, disks, history>>

\* The SQL type of the id columns, as the code reads them everywhere
\* (`let id: i32 = res.get(0)`): INT4.
id_column_type == "int4"

\* ToSql of the driver: whether a statement parameter of the Rust type may
\* be sent for a placeholder of the SQL type.  i32 goes as INT4, u32 as OID
\* and &str as text; conn.query returns a conversion error otherwise.
to_sql_accepts(rust_type, sql_type) ==
    <<rust_type, sql_type>> \in {<<"i32", "int4">>, <<"u32", "oid">>, <<"&str", "text">>}

\* The lookups return stmt_query.into_iter().next(): Some of the first row
\* the store returns (any of the rows, the SELECT has no ORDER BY) or None.
first_of(ids) == IF ids = {} THEN {None} ELSE {Some(id) : id \in ids}

\* get_region_id(region_name).
get_region_id(region_name) ==
    /\ \E value \in first_of({r.region_id : r \in {q \in regions :
                                                      q.region_name = region_name}}) :
          ret' = [op |-> "get_region_id", ok |-> to_sql_accepts("&str", "text"),
                  value |-> value, region_name |-> region_name]
    /\ UNCHANGED <<clients, registrar_tables, hardware_tables, ledger, seq, disks, history>>

\* get_storage_id(storage_type).
get_storage_id(storage_type) ==
    /\ \E value \in first_of({r.storage_id : r \in {q \in storage_types :
                                                       q.storage_type = storage_type}}) :
          ret' = [op |-> "get_storage_id", ok |-> to_sql_accepts("&str", "text"),
                  value |-> value, storage_type |-> storage_type]
    /\ UNCHANGED <<clients, registrar_tables, hardware_tables, ledger, seq, disks, history>>

\* get_storage_detail_id(storage_id, region_id, host_name): storage_id and
\* region_id are passed to conn.query as u32, for placeholders compared with
\* the INT4 columns storage_id and region_id; '?' returns the error of
\* conn.query.
get_storage_detail_id(storage_id, region_id, host_name) ==
    LET accepted == /\ to_sql_accepts("u32", id_column_type)
                    /\ to_sql_accepts("&str", "text")
        stmt_query == {r \in storage_details : /\ r.storage_id = storage_id
                                                /\ r.region_id = region_id
                                                /\ r.hostname = host_name}
    IN  /\ \E value \in (IF accepted THEN first_of({r.detail_id : r \in stmt_query})
                                       ELSE {None}) :
              ret' = [op |-> "get_storage_detail_id", ok |-> accepted, value |-> value,
                      storage_id |-> storage_id, region_id |-> region_id,
                      host_name |-> host_name]
        /\ UNCHANGED <<clients, registrar_tables, hardware_tables, ledger, seq, disks, history>>

\* get_host_name(device_id): device_id is an i32.
get_host_name(device_id) ==
    LET stmt_query == {r.hostname : r \in {q \in storage_details :
                          \E h \in hardware : /\ h.detail_id = q.detail_id
                                               /\ h.device_id = device_id}}
    IN  /\ \E value \in first_of(stmt_query) :
              ret' = [op |-> "get_host_name", ok |-> to_sql_accepts("i32", id_column_type),
                      value |-> value, device_id |-> device_id]
        /\ UNCHANGED <<clients, registrar_tables, hardware_tables, ledger, seq, disks, history>>

\* ------------------------------------------------------------------ State
\* test_disk::State as far as the ledger observes it, with its Display and
\* FromStr forms (the text stored in hardware.state).
State == {"Unscanned", "Good", "WaitingForReplacement"}

State_to_string(state) ==
    CASE state = "Unscanned" -> "unscanned"
      [] state = "Good" -> "good"
      [] state = "WaitingForReplacement" -> "waiting_for_replacement"

\* State::from_str: Ok(state) for a known token, Err (None here) otherwise.
State_from_str(text) == {st \in State : State_to_string(st) = text}

\* ------------------------------------------------------ Hardware Inventory
\* The callers' BlockDevice structs: the fields add_disk_detail reads.  The
\* two structs are two disks of the host whose storage detail has id 1.
BlockDevice ==
    [sda |-> [dev_path |-> "/dev/sda", name |-> "sda", storage_detail_id |-> 1,
              state |-> "Unscanned", mount_point |-> None, id |-> Some("uuid-a"),
              serial_number |-> Some("123456")],
     sdb |-> [dev_path |-> "/dev/sdb", name |-> "sdb", storage_detail_id |-> 1,
              state |-> "Good", mount_point |-> Some("/mnt/sdb"), id |-> None,
              serial_number |-> None]]

\* hardware_types as the deployment loaded it.
ReferenceHardwareTypes == {{[hardware_id |-> 2, hardware_type |-> "disk"]}}

select_device_none(hw, disk_info) == {}

\* SELECT device_id FROM hardware WHERE device_path, detail_id, device_name.
select_device(hw, disk_info) ==
    {r \in hw : /\ r.device_path = disk_info.dev_path
                /\ r.detail_id = disk_info.storage_detail_id
                /\ r.device_name = disk_info.name}

\* The hardware type of a new row: the first 'disk' row of hardware_types,
\* or 2 when there is none.
disk_hardware_type(types) ==
    LET stmt2 == {r \in types : r.hardware_type = "disk"}
    IN  IF stmt2 # {} THEN FirstBy(stmt2, "hardware_id").hardware_id ELSE 2

\* The row add_disk_detail inserts: the optional columns are NULL when the
\* struct has no value for them, smart_passed is not among the columns.
new_hardware_row(device_id, disk_info, hardware_type) ==
    [device_id |-> device_id, detail_id |-> disk_info.storage_detail_id,
     device_path |-> disk_info.dev_path, device_name |-> disk_info.name,
     state |-> State_to_string(disk_info.state), hardware_type |-> hardware_type,
     mount_path |-> disk_info.mount_point, device_uuid |-> disk_info.id,
     serial_number |-> disk_info.serial_number, smart_passed |-> None]

adopt_stored_id(known, id) == [ok |-> TRUE, device_database_id |-> Some(id), err |-> None]

\* The device exists: adopt the stored id when the struct has none, fail on
\* a different one, succeed on the same one.
match_device_database_id(known, id) ==
    IF known = None
    THEN [ok |-> TRUE, device_database_id |-> Some(id), err |-> None]
    ELSE IF Unwrap(known) # id
         THEN [ok |-> FALSE, device_database_id |-> known, err |-> Some("didn't match")]
         ELSE [ok |-> TRUE, device_database_id |-> known, err |-> None]

\* add_disk_detail on the struct d.
add_disk_detail(d) ==
    LET disk_info == BlockDevice[d]
        known == disks[d].device_database_id
        stmt_query == select_device(hardware, disk_info)
    IN  IF stmt_query = {}
        THEN /\ seq.hardware < MaxId
             /\ hardware' = hardware \cup
                    {new_hardware_row(seq.hardware + 1, disk_info,
                                      disk_hardware_type(hardware_types))}
             /\ seq' = [seq EXCEPT !.hardware = @ + 1]
             /\ disks' = [disks EXCEPT ![d].device_database_id = Some(seq.hardware + 1)]
             /\ reconciled' = [reconciled EXCEPT ![d] = @ \cup {seq.hardware + 1}]
             /\ ret' = [op |-> "add_disk_detail", ok |-> TRUE, disk |-> d,
                        known |-> known, inserted |-> TRUE, err |-> None]
             /\ UNCHANGED <<clients, registrar_tables, hardware_types, ledger, returned, saved>>
        ELSE LET id == FirstBy(stmt_query, "device_id").device_id
                 m == match_device_database_id(known, id)
             IN  /\ disks' = [disks EXCEPT ![d].device_database_id = m.device_database_id]
                 /\ reconciled' = IF m.ok
                                  THEN [reconciled EXCEPT
                                            ![d] = @ \cup m.device_database_id]
                                  ELSE reconciled
                 /\ ret' = [op |-> "add_disk_detail", ok |-> m.ok, disk |-> d,
                            known |-> known, inserted |-> FALSE, err |-> m.err]
                 /\ UNCHANGED <<clients, registrar_tables, hardware_tables, ledger, seq, returned, saved>>

\* The caller clears the struct's id, as after a restart of the process.
clear_device_database_id(d) ==
    /\ disks[d].device_database_id # None
    /\ disks' = [disks EXCEPT ![d].device_database_id = None]
    /\ ret' = [op |-> "clear_device_database_id", ok |-> TRUE, disk |-> d]
    /\ UNCHANGED <<clients, registrar_tables, hardware_tables, ledger, seq, history>>

\* BlockDevice::set_device_database_id called by the caller with an id of
\* its own.
set_device_database_id(d, i) ==
    /\ disks[d].device_database_id # Some(i)
    /\ disks' = [disks EXCEPT ![d].device_database_id = Some(i)]
    /\ ret' = [op |-> "set_device_database_id", ok |-> TRUE, disk |-> d]
    /\ UNCHANGED <<clients, registrar_tables, hardware_tables, ledger, seq, history>>

\* --------------------------------------------------- State & Health Store
\* UPDATE hardware SET <column> = value WHERE device_id = dev_id, inside
\* the transaction: the table after it and the number of rows it affected.
update_hardware(hw, dev_id, column, value) ==
    [table |-> {IF r.device_id = dev_id THEN [r EXCEPT ![column] = value] ELSE r
                    : r \in hw},
     count |-> Cardinality({r \in hw : r.device_id = dev_id})]

more_than_one_row(count) == count > 1

\* The row-count guard of save_state and save_smart_result, stmt_query != 1:
\* TRUE when the transaction is to be rolled back.
not_one_row(count) == count # 1

\* What can go wrong in the store during a save: nothing, a failing UPDATE
\* ('?' returns the error, the dropped transaction rolls back), or a failing
\* COMMIT.
SaveFaults == {"none", "update", "commit"}

\* save_state: the struct must know its device id; the UPDATE runs in a
\* transaction that is rolled back unless exactly one row was affected.  The
\* result of finish() is discarded.
save_state(d, state, fault) ==
    LET known == disks[d].device_database_id
    IN  IF known = None
        THEN /\ ret' = [op |-> "save_state", ok |-> FALSE, disk |-> d, known |-> known,
                        state |-> state, fault |-> fault, updated |-> None]
             /\ UNCHANGED <<hardware, saved>>
        ELSE LET dev_id == Unwrap(known)
                 u == update_hardware(hardware, dev_id, "state", State_to_string(state))
                 ran == fault # "update"
                 ok == ran /\ ~not_one_row(u.count)
                 committed == ok /\ fault # "commit"
             IN  /\ hardware' = IF committed THEN u.table ELSE hardware
                 /\ saved' = IF ok
                             THEN {p \in saved : p[1] # dev_id} \cup {<<dev_id, state>>}
                             ELSE saved
                 /\ ret' = [op |-> "save_state", ok |-> ok, disk |-> d, known |-> known,
                            state |-> state, fault |-> fault,
                            updated |-> IF ran THEN Some(u.count) ELSE None]

\* save_smart_result: as save_state on the column smart_passed, but an error
\* of finish() is returned.
save_smart_result(d, smart_passed, fault) ==
    LET known == disks[d].device_database_id
    IN  IF known = None
        THEN /\ ret' = [op |-> "save_smart_result", ok |-> FALSE, disk |-> d,
                        known |-> known, smart_passed |-> smart_passed,
                        fault |-> fault, updated |-> None]
             /\ UNCHANGED hardware
        ELSE LET dev_id == Unwrap(known)
                 u == update_hardware(hardware, dev_id, "smart_passed",
                                      Some(smart_passed))
                 ran == fault # "update"
                 commit == ran /\ ~not_one_row(u.count)
                 ok == commit /\ fault # "commit"
             IN  /\ hardware' = IF ok THEN u.table ELSE hardware
                 /\ ret' = [op |-> "save_smart_result", ok |-> ok, disk |-> d,
                            known |-> known, smart_passed |-> smart_passed,
                            fault |-> fault,
                            updated |-> IF ran THEN Some(u.count) ELSE None]

read_state_strictly(stmt_query) ==
    IF Cardinality(stmt_query) # 1
    THEN [ok |-> FALSE, state |-> "Unscanned"]
    ELSE LET parsed == State_from_str(FirstBy(stmt_query, "device_id").state)
         IN  IF parsed = None THEN [ok |-> FALSE, state |-> "Unscanned"]
                              ELSE [ok |-> TRUE, state |-> Unwrap(parsed)]

\* The result of get_state from the rows of its SELECT: Ok(Unscanned) unless
\* there is exactly one row, otherwise the stored text parsed,
\* unwrap_or(Unscanned) when it does not parse.
read_state(stmt_query) ==
    IF Cardinality(stmt_query) # 1
    THEN [ok |-> TRUE, state |-> "Unscanned"]
    ELSE LET parsed == State_from_str(FirstBy(stmt_query, "device_id").state)
         IN  [ok |-> TRUE, state |-> IF parsed = None THEN "Unscanned" ELSE Unwrap(parsed)]

get_state_or_default(d) ==
    LET known == disks[d].device_database_id
    IN  ret' = [op |-> "get_state", ok |-> TRUE, disk |-> d, known |-> known,
                state |-> IF known = None
                             THEN "Unscanned"
                             ELSE read_state({r \in hardware :
                                                r.device_id = Unwrap(known)}).state]

\* get_state: an error without a device id, the result of the SELECT with
\* one.
get_state(d) ==
    LET known == disks[d].device_database_id
        stmt_query == {r \in hardware : r.device_id = Unwrap(known)}
    IN  ret' = IF known = None
               THEN [op |-> "get_state", ok |-> FALSE, disk |-> d, known |-> known]
               ELSE [op |-> "get_state", ok |-> read_state(stmt_query).ok, disk |-> d,
                     known |-> known, state |-> read_state(stmt_query).state]

\* get_smart_result: an error without a device id; Ok(false) unless exactly
\* one row has the id; otherwise row.get("smart_passed") as a bool, which
\* panics on NULL.
get_smart_result(d) ==
    LET known == disks[d].device_database_id
        stmt_query == {r \in hardware : r.device_id = Unwrap(known)}
        stored == FirstBy(stmt_query, "device_id").smart_passed
    IN  ret' = IF known = None
               THEN [op |-> "get_smart_result", ok |-> FALSE, disk |-> d, known |-> known,
                     panicked |-> FALSE]
               ELSE IF Cardinality(stmt_query) # 1
               THEN [op |-> "get_smart_result", ok |-> TRUE, disk |-> d, known |-> known,
                     panicked |-> FALSE, smart_passed |-> FALSE]
               ELSE IF stored = None
               THEN [op |-> "get_smart_result", ok |-> FALSE, disk |-> d, known |-> known,
                     panicked |-> TRUE]
               ELSE [op |-> "get_smart_result", ok |-> TRUE, disk |-> d, known |-> known,
                     panicked |-> FALSE, smart_passed |-> Unwrap(stored)]

\* ------------------------------------------------------- Operation Ledger
OperationType == {"DiskAdd", "DiskReplace", "DiskRemove", "WaitingForReplacement",
                  "Evaluation"}

\* impl Display for OperationType: the token stored in operation_types.op_name.
OperationType_to_string(op_type) ==
    CASE op_type = "DiskAdd" -> "diskadd"
      [] op_type = "DiskReplace" -> "diskreplace"
      [] op_type = "DiskRemove" -> "diskremove"
      [] op_type = "WaitingForReplacement" -> "waiting_for_replacement"
      [] op_type = "Evaluation" -> "evaluation"

OperationStatus == {"Pending", "InProgress", "Complete"}

\* impl Display for OperationStatus: the text stored in operation_details.status.
OperationStatus_to_string(status) ==
    CASE status = "Pending" -> "pending"
      [] status = "InProgress" -> "in_progress"
      [] status = "Complete" -> "complete"

\* The callers' structs: the variables of the calling code that hold an
\* OperationInfo or an OperationDetail.
OpSlots == {"op_info", "op_info2"}
DetailSlots == {"op_detail", "op_detail2"}

\* OperationInfo::new at the instant t: its two readings of the clock, for
\* start_time and snapshot_time, fall into the same instant.
OperationInfo_new(entry_id, device_id, t) ==
    [operation_id |-> None, entry_id |-> entry_id, device_id |-> device_id,
     behalf_of |-> None, reason |-> None, start_time |-> t, snapshot_time |-> t,
     done_time |-> None]

\* The row the INSERT of add_or_update_operation writes: behalf_of and reason
\* when present, never done_time.
new_operation_row(operation_id, op_info) ==
    [operation_id |-> operation_id, entry_id |-> op_info.entry_id,
     device_id |-> op_info.device_id, behalf_of |-> op_info.behalf_of,
     reason |-> op_info.reason, start_time |-> op_info.start_time,
     snapshot_time |-> op_info.snapshot_time, done_time |-> None]

update_operation_row_from_struct(r, op_info) ==
    [r EXCEPT !.entry_id = op_info.entry_id, !.device_id = op_info.device_id,
              !.behalf_of = op_info.behalf_of, !.reason = op_info.reason,
              !.start_time = op_info.start_time,
              !.snapshot_time = op_info.snapshot_time,
              !.done_time = IF op_info.done_time # None THEN op_info.done_time ELSE @]

\* The UPDATE of add_or_update_operation on one row: snapshot_time, and
\* done_time when the struct has one.
update_operation_row(r, op_info) ==
    [r EXCEPT !.snapshot_time = op_info.snapshot_time,
              !.done_time = IF op_info.done_time # None THEN op_info.done_time ELSE @]

update_requires_one_row(updated) == updated = 1

\* The result of the update path, whatever the number of rows the UPDATE
\* touched: "even if query to update failed that's fine".
update_is_ok(updated) == TRUE

entry_id_is_optional(op_info) == FALSE

\* The validation of a new record: a process tracking id is required.
missing_entry_id(op_info) == op_info.entry_id = 0

\* add_or_update_operation on the struct in slot s.
add_or_update_operation(s) ==
    LET op_info == Unwrap(op_infos[s])
    IN  /\ op_infos[s] # None
        /\ IF op_info.operation_id = None
           THEN IF missing_entry_id(op_info)
                THEN /\ ret' = [op |-> "add_or_update_operation", ok |-> FALSE,
                                slot |-> s, inserted |-> FALSE, updated |-> 0]
                     /\ UNCHANGED <<operations, seq, op_infos>>
                ELSE /\ seq.operations < MaxId
                     /\ operations' = operations \cup
                            {new_operation_row(seq.operations + 1, op_info)}
                     /\ seq' = [seq EXCEPT !.operations = @ + 1]
                     /\ op_infos' = [op_infos EXCEPT ![s] =
                            Some([op_info EXCEPT !.operation_id = Some(seq.operations + 1)])]
                     /\ ret' = [op |-> "add_or_update_operation", ok |-> TRUE,
                                slot |-> s, inserted |-> TRUE, updated |-> 0]
           ELSE LET id == Unwrap(op_info.operation_id)
                IN  /\ operations' = {IF r.operation_id = id
                                         THEN update_operation_row(r, op_info) ELSE r
                                            : r \in operations}
                    /\ ret' = [op |-> "add_or_update_operation",
                               ok |-> update_is_ok(Cardinality({r \in operations :
                                                                  r.operation_id = id})),
                               slot |-> s, inserted |-> FALSE,
                               updated |-> Cardinality({r \in operations :
                                                           r.operation_id = id})]
                    /\ UNCHANGED <<seq, op_infos>>
        /\ UNCHANGED <<clients, registrar_tables, hardware_tables, operation_types,
                       operation_details, now, op_details, disks, history>>

\* A step of the calling code on the struct in slot s that changes the
\* struct to op_info2 and reads the clock when `tick`.
caller_sets_op_info(s, op_info2, tick, what) ==
    /\ op_infos' = [op_infos EXCEPT ![s] = Some(op_info2)]
    /\ now' = IF tick THEN now + 1 ELSE now
    /\ ret' = [op |-> what, ok |-> TRUE, slot |-> s]
    /\ UNCHANGED <<clients, registrar_tables, hardware_tables, ledger_tables, seq, op_details,
                   disks, history>>

\* OperationInfo::new(entry_id, device_id) into the unused slot s.
new_operation_info(s, entry_id, device_id) ==
    /\ op_infos[s] = None /\ now <= MaxTime
    /\ caller_sets_op_info(s, OperationInfo_new(entry_id, device_id, now), TRUE,
                           "OperationInfo::new")

\* OperationInfo::set_snapshot_time(Utc::now()).
set_snapshot_time(s) ==
    /\ op_infos[s] # None /\ now <= MaxTime
    /\ caller_sets_op_info(s, [Unwrap(op_infos[s]) EXCEPT !.snapshot_time = now], TRUE,
                           "OperationInfo::set_snapshot_time")

\* OperationInfo::set_done_time(Utc::now()).
set_done_time(s) ==
    /\ op_infos[s] # None /\ now <= MaxTime
    /\ caller_sets_op_info(s, [Unwrap(op_infos[s]) EXCEPT !.done_time = Some(now)], TRUE,
                           "OperationInfo::set_done_time")

\* The caller writes the public fields behalf_of and reason.
describe_operation(s) ==
    /\ op_infos[s] # None /\ Unwrap(op_infos[s]).reason = None
    /\ caller_sets_op_info(s, [Unwrap(op_infos[s]) EXCEPT
                                  !.behalf_of = Some("operator"),
                                  !.reason = Some("smart check failed")],
                           FALSE, "OperationInfo.reason")

\* The caller writes the public fields entry_id, device_id and start_time.
reassign_operation(s) ==
    /\ op_infos[s] # None /\ Unwrap(op_infos[s]).start_time # 0
    /\ caller_sets_op_info(s, [Unwrap(op_infos[s]) EXCEPT
                                  !.entry_id = 2, !.device_id = 2, !.start_time = 0],
                           FALSE, "OperationInfo.entry_id")

\* The caller writes the public field operation_id, as when it takes up an
\* Operation whose id it kept from an earlier run.
assume_operation_id(s, id) ==
    /\ op_infos[s] # None /\ Unwrap(op_infos[s]).operation_id # Some(id)
    /\ caller_sets_op_info(s, [Unwrap(op_infos[s]) EXCEPT !.operation_id = Some(id)],
                           FALSE, "OperationInfo.operation_id")

\* OperationDetail::new at the instant t (both readings of the clock).
OperationDetail_new(operation_id, op_type, t) ==
    [op_detail_id |-> None, operation_id |-> operation_id, op_type |-> op_type,
     status |-> "Pending", tracking_id |-> None, start_time |-> t, snapshot_time |-> t,
     done_time |-> None]

\* SELECT type_id FROM operation_types WHERE op_name = '{op_type}'.
select_type_id(types, op_type) ==
    {r \in types : r.op_name = OperationType_to_string(op_type)}

type_lookup_is_empty(count) == count = 0

\* The guard of the type lookup, stmt_query.len() != 1: TRUE when
\* add_or_update_operation_detail returns the error.
type_lookup_fails(count) == count # 1

new_operation_detail_row_untracked(operation_detail_id, type_id, operation_detail) ==
    [operation_detail_id |-> operation_detail_id,
     operation_id |-> operation_detail.operation_id, type_id |-> type_id,
     status |-> OperationStatus_to_string(operation_detail.status),
     tracking_id |-> None,
     start_time |-> operation_detail.start_time,
     snapshot_time |-> operation_detail.snapshot_time,
     done_time |-> operation_detail.done_time]

\* The row the INSERT of add_or_update_operation_detail writes: tracking_id
\* and done_time when present.
new_operation_detail_row(operation_detail_id, type_id, operation_detail) ==
    [operation_detail_id |-> operation_detail_id,
     operation_id |-> operation_detail.operation_id, type_id |-> type_id,
     status |-> OperationStatus_to_string(operation_detail.status),
     tracking_id |-> operation_detail.tracking_id,
     start_time |-> operation_detail.start_time,
     snapshot_time |-> operation_detail.snapshot_time,
     done_time |-> operation_detail.done_time]

set_status_if_later(stored, operation_detail) ==
    LET rank == [pending |-> 1, in_progress |-> 2, complete |-> 3]
        status == OperationStatus_to_string(operation_detail.status)
    IN  IF rank[status] >= rank[stored] THEN status ELSE stored

\* SET status = $2 of the UPDATE: the struct's status, whatever status the
\* row holds.
set_status(stored, operation_detail) ==
    OperationStatus_to_string(operation_detail.status)

update_operation_detail_row_from_struct(r, operation_detail) ==
    [r EXCEPT !.operation_id = operation_detail.operation_id,
              !.start_time = operation_detail.start_time,
              !.snapshot_time = operation_detail.snapshot_time,
              !.status = OperationStatus_to_string(operation_detail.status),
              !.tracking_id = operation_detail.tracking_id,
              !.done_time = operation_detail.done_time]

\* The UPDATE of add_or_update_operation_detail on one row: snapshot_time and
\* status, tracking_id and done_time when the struct has them.
update_operation_detail_row(r, operation_detail) ==
    [r EXCEPT !.snapshot_time = operation_detail.snapshot_time,
              !.status = set_status(@, operation_detail),
              !.tracking_id = IF operation_detail.tracking_id # None
                                 THEN operation_detail.tracking_id ELSE @,
              !.done_time = IF operation_detail.done_time # None
                               THEN operation_detail.done_time ELSE @]

\* add_or_update_operation_detail on the struct in slot s.  In `ret`,
\* `updated` counts the rows the UPDATE matched and `replaced` holds the
\* statuses they had before it.
add_or_update_operation_detail(s) ==
    LET operation_detail == Unwrap(op_details[s])
        stmt_query == select_type_id(operation_types, operation_detail.op_type)
        type_id == FirstBy(stmt_query, "type_id").type_id
    IN  /\ op_details[s] # None
        /\ IF operation_detail.op_detail_id = None
           THEN IF type_lookup_fails(Cardinality(stmt_query))
                THEN /\ ret' = [op |-> "add_or_update_operation_detail", ok |-> FALSE,
                                slot |-> s, inserted |-> FALSE, updated |-> 0,
                                replaced |-> {},
                                err |-> Some("More than one record found in database")]
                     /\ UNCHANGED <<operation_details, seq, op_details>>
                ELSE /\ seq.operation_details < MaxId
                     /\ operation_details' = operation_details \cup
                            {new_operation_detail_row(seq.operation_details + 1, type_id,
                                                      operation_detail)}
                     /\ seq' = [seq EXCEPT !.operation_details = @ + 1]
                     /\ op_details' = [op_details EXCEPT ![s] =
                            Some([operation_detail EXCEPT
                                     !.op_detail_id = Some(seq.operation_details + 1)])]
                     /\ ret' = [op |-> "add_or_update_operation_detail", ok |-> TRUE,
                                slot |-> s, inserted |-> TRUE, updated |-> 0,
                                replaced |-> {}, err |-> None]
           ELSE LET id == Unwrap(operation_detail.op_detail_id)
                IN  /\ operation_details' =
                           {IF r.operation_detail_id = id
                               THEN update_operation_detail_row(r, operation_detail) ELSE r
                                  : r \in operation_details}
                    /\ ret' = [op |-> "add_or_update_operation_detail", ok |-> TRUE,
                               slot |-> s, inserted |-> FALSE,
                               updated |-> Cardinality({r \in operation_details :
                                                           r.operation_detail_id = id}),
                               replaced |-> {r.status : r \in {q \in operation_details :
                                                                  q.operation_detail_id = id}},
                               err |-> None]
                    /\ UNCHANGED <<seq, op_details>>
        /\ UNCHANGED <<clients, registrar_tables, hardware_tables, operation_types, operations,
                       now, op_infos, disks, history>>

\* A step of the calling code on the struct in slot s that changes the
\* struct to operation_detail2 and reads the clock when `tick`.
caller_sets_op_detail(s, operation_detail2, tick, what) ==
    /\ op_details' = [op_details EXCEPT ![s] = Some(operation_detail2)]
    /\ now' = IF tick THEN now + 1 ELSE now
    /\ ret' = [op |-> what, ok |-> TRUE, slot |-> s]
    /\ UNCHANGED <<clients, registrar_tables, hardware_tables, ledger_tables, seq, op_infos,
                   disks, history>>

\* OperationDetail::new(operation_id, op_type) into the unused slot s.
new_operation_detail(s, operation_id, op_type) ==
    /\ op_details[s] = None /\ now <= MaxTime
    /\ caller_sets_op_detail(s, OperationDetail_new(operation_id, op_type, now), TRUE,
                             "OperationDetail::new")

\* OperationDetail::set_tracking_id.
set_tracking_id(s, tracking_id) ==
    /\ op_details[s] # None /\ Unwrap(op_details[s]).tracking_id # Some(tracking_id)
    /\ caller_sets_op_detail(s, [Unwrap(op_details[s]) EXCEPT
                                    !.tracking_id = Some(tracking_id)],
                             FALSE, "OperationDetail::set_tracking_id")

\* OperationDetail::set_operation_status.
set_operation_status(s, status) ==
    /\ op_details[s] # None /\ Unwrap(op_details[s]).status # status
    /\ caller_sets_op_detail(s, [Unwrap(op_details[s]) EXCEPT !.status = status],
                             FALSE, "OperationDetail::set_operation_status")

\* OperationDetail::set_done_time(Utc::now()).
set_detail_done_time(s) ==
    /\ op_details[s] # None /\ now <= MaxTime
    /\ caller_sets_op_detail(s, [Unwrap(op_details[s]) EXCEPT !.done_time = Some(now)],
                             TRUE, "OperationDetail::set_done_time")

\* The caller writes the public field op_detail_id.
assume_op_detail_id(s, id) ==
    /\ op_details[s] # None /\ Unwrap(op_details[s]).op_detail_id # Some(id)
    /\ caller_sets_op_detail(s, [Unwrap(op_details[s]) EXCEPT !.op_detail_id = Some(id)],
                             FALSE, "OperationDetail.op_detail_id")

\* The caller writes the public fields operation_id, op_type, start_time,
\* tracking_id and done_time of a detail it has stored.
reassign_operation_detail(s) ==
    /\ op_details[s] # None /\ Unwrap(op_details[s]).start_time # 0
    /\ Unwrap(op_details[s]).op_detail_id # None
    /\ caller_sets_op_detail(s, [Unwrap(op_details[s]) EXCEPT
                                    !.operation_id = 2, !.op_type = "Evaluation",
                                    !.start_time = 0, !.tracking_id = None,
                                    !.done_time = None],
                             FALSE, "OperationDetail.operation_id")

\* ----------------------------------------------------- Ticket Query Layer
\* operation_details JOIN operations USING (operation_id) JOIN hardware
\* USING (device_id): one joined row per matching triple.
joined_rows ==
    {j \in [d : operation_details, o : operations, h : hardware] :
        /\ j.d.operation_id = j.o.operation_id
        /\ j.o.device_id = j.h.device_id}

\* (SELECT type_id FROM operation_types WHERE op_name = $3), a scalar
\* subquery: NULL on no row, an SQL error on more than one.
scalar_type_id(types, op_type) ==
    LET rows == select_type_id(types, op_type)
    IN  [err |-> Cardinality(rows) > 1,
         value |-> IF Cardinality(rows) = 1 THEN Some(FirstBy(rows, "type_id").type_id)
                                            ELSE None]

where_outstanding_any_status(j, type_id, detail_id) ==
    /\ type_id # None /\ j.d.type_id = Unwrap(type_id)
    /\ j.h.state \in {State_to_string("WaitingForReplacement"), State_to_string("Good")}
    /\ j.h.detail_id = detail_id
    /\ j.d.tracking_id # None

\* The WHERE clause of get_outstanding_repair_tickets on one joined row.
where_outstanding(j, type_id, detail_id) ==
    /\ j.d.status \in {OperationStatus_to_string("InProgress"),
                       OperationStatus_to_string("Pending")}
    /\ type_id # None /\ j.d.type_id = Unwrap(type_id)
    /\ j.h.state \in {State_to_string("WaitingForReplacement"), State_to_string("Good")}
    /\ j.h.detail_id = detail_id
    /\ j.d.tracking_id # None

order_by_detail_start_time(j) == j.d.start_time

\* ORDER BY operations.start_time: the sort key of a joined row.
order_by(j) == j.o.start_time

\* The orders in which the store may return `rows` under ORDER BY: every
\* arrangement that is ascending in the key, rows of equal key in any order.
ordered(rows) ==
    {q \in [1..Cardinality(rows) -> rows] :
        /\ \A i, k \in DOMAIN q : i # k => q[i] # q[k]
        /\ \A i, k \in DOMAIN q : i < k => order_by(q[i]) <= order_by(q[k])}

\* row_to_ticket: the three selected columns.
row_to_ticket(j) ==
    [ticket_id |-> Unwrap(j.d.tracking_id), device_name |-> j.h.device_name,
     device_path |-> j.h.device_path]

\* get_outstanding_repair_tickets(storage_detail_id).  `details` lists, beside
\* the tickets, the operation_details row each ticket was made from.
get_outstanding_repair_tickets(storage_detail_id) ==
    LET type_id == scalar_type_id(operation_types, "WaitingForReplacement")
        rows == {j \in joined_rows :
                    where_outstanding(j, type_id.value, storage_detail_id)}
    IN  /\ IF type_id.err
           THEN ret' = [op |-> "get_outstanding_repair_tickets", ok |-> FALSE,
                        detail_id |-> storage_detail_id, tickets |-> <<>>,
                        details |-> <<>>]
           ELSE \E stmt_query \in ordered(rows) :
                    ret' = [op |-> "get_outstanding_repair_tickets", ok |-> TRUE,
                            detail_id |-> storage_detail_id,
                            tickets |-> [i \in DOMAIN stmt_query |->
                                            row_to_ticket(stmt_query[i])],
                            details |-> [i \in DOMAIN stmt_query |->
                                            stmt_query[i].d.operation_detail_id]]
        /\ UNCHANGED <<clients, registrar_tables, hardware_tables, ledger, seq, disks, history>>

where_pending_any_state(j, type_id) ==
    /\ j.d.status \in {OperationStatus_to_string("InProgress"),
                       OperationStatus_to_string("Pending")}
    /\ type_id # None /\ j.d.type_id = Unwrap(type_id)
    /\ j.d.tracking_id # None

\* The WHERE clause of get_all_pending_tickets on one joined row: that of
\* get_outstanding_repair_tickets without `detail_id = $6`.
where_pending(j, type_id) ==
    /\ j.d.status \in {OperationStatus_to_string("InProgress"),
                       OperationStatus_to_string("Pending")}
    /\ type_id # None /\ j.d.type_id = Unwrap(type_id)
    /\ j.h.state \in {State_to_string("WaitingForReplacement"), State_to_string("Good")}
    /\ j.d.tracking_id # None

\* DiskPendingTicket::new(row.get(0), row.get(1), row.get(2), row.get(3)).
DiskPendingTicket_new(j) ==
    [ticket_id |-> Unwrap(j.d.tracking_id), device_name |-> j.h.device_name,
     device_path |-> j.h.device_path, device_id |-> j.h.device_id]

\* get_all_pending_tickets().  `details` lists, beside the tickets, the
\* operation_details row each ticket was made from.
get_all_pending_tickets ==
    LET type_id == scalar_type_id(operation_types, "WaitingForReplacement")
        rows == {j \in joined_rows : where_pending(j, type_id.value)}
    IN  /\ IF type_id.err
           THEN ret' = [op |-> "get_all_pending_tickets", ok |-> FALSE,
                        tickets |-> <<>>, details |-> <<>>]
           ELSE \E stmt_query \in ordered(rows) :
                    ret' = [op |-> "get_all_pending_tickets", ok |-> TRUE,
                            tickets |-> [i \in DOMAIN stmt_query |->
                                            DiskPendingTicket_new(stmt_query[i])],
                            details |-> [i \in DOMAIN stmt_query |->
                                            stmt_query[i].d.operation_detail_id]]
        /\ UNCHANGED <<clients, registrar_tables, hardware_tables, ledger, seq, disks, history>>

\* The WHERE clause of is_hardware_waiting_repair on one joined row; the
\* serial number, when given, is compared with the column device_uuid.
where_waiting_repair(j, type_id, storage_detail_id, device_name, serial_number) ==
    /\ j.h.device_name = device_name
    /\ j.h.detail_id = storage_detail_id
    /\ type_id # None /\ j.d.type_id = Unwrap(type_id)
    /\ j.h.state = State_to_string("WaitingForReplacement")
    /\ serial_number # None => j.h.device_uuid = serial_number

\* The result of is_hardware_waiting_repair: an error when the scalar
\* subquery fails, otherwise whether the SELECT returned a row.
hardware_waiting_repair(storage_detail_id, device_name, serial_number) ==
    LET type_id == scalar_type_id(operation_types, "WaitingForReplacement")
        stmt_query == {j \in joined_rows :
                          where_waiting_repair(j, type_id.value, storage_detail_id,
                                               device_name, serial_number)}
    IN  [ok |-> ~type_id.err, value |-> ~type_id.err /\ stmt_query # {}]

\* is_hardware_waiting_repair(storage_detail_id, device_name, serial_number).
is_hardware_waiting_repair(storage_detail_id, device_name, serial_number) ==
    /\ ret' = [op |-> "is_hardware_waiting_repair",
               ok |-> hardware_waiting_repair(storage_detail_id, device_name,
                                              serial_number).ok,
               value |-> hardware_waiting_repair(storage_detail_id, device_name,
                                                 serial_number).value,
               detail_id |-> storage_detail_id, device_name |-> device_name,
               serial_number |-> serial_number]
    /\ UNCHANGED <<clients, registrar_tables, hardware_tables, ledger, seq, disks,
                   history>>

\* The column ticket_id of an operation_details row, which the WHERE clause
\* of resolve_ticket_in_db names: no INSERT or UPDATE of the program writes
\* it (they write tracking_id), so it is NULL where the table has it.
ticket_id_column(r) == None

\* resolve_ticket_in_db(ticket_id): UPDATE operation_details SET status =
\* 'complete' WHERE ticket_id = '{ticket_id}'.  The statement fails where
\* the table has no column ticket_id ('?' returns the error); where it has
\* one, the rows it matches are updated and the call returns Ok whatever
\* their number.
resolve_ticket_in_db(ticket_id) ==
    \E has_column \in BOOLEAN :
        LET matched == {r \in operation_details : ticket_id_column(r) = Some(ticket_id)}
        IN  /\ operation_details' =
                   IF has_column
                   THEN {IF r \in matched
                            THEN [r EXCEPT !.status = OperationStatus_to_string("Complete")]
                            ELSE r : r \in operation_details}
                   ELSE operation_details
            /\ ret' = [op |-> "resolve_ticket_in_db", ok |-> has_column,
                       ticket_id |-> ticket_id,
                       updated |-> IF has_column THEN Cardinality(matched) ELSE 0]
            /\ UNCHANGED <<clients, registrar_tables, hardware_tables, operation_types, operations,
                           ledger_structs, seq, disks, history>>

\* ---------------------------------------------------- RPC Protocol Client
\* api::service: the result envelope as the client reads it.  error_msg is
\* an optional field: has_error_msg tells whether it is set, get_error_msg
\* returns "" when it is not.
ResultType == {"OK", "ERR"}

has_error_msg(reply) == reply.error_msg # None

get_error_msg(reply) == IF reply.error_msg = None THEN "" ELSE Unwrap(reply.error_msg)

\* The replies of the daemon: OpResult (add, remove), OpBoolResult
\* (safe to remove), OpJiraTicketsResult, and Disks for a list request.
ErrorMsgs == {"", "disk busy"}

DiskLists == {<<>>, <<"/dev/sda", "/dev/sdb">>}

Replies(Op_type) ==
    IF Op_type = "List"
    THEN [result : {"OK"}, error_msg : {None}, value : {FALSE}, disk : DiskLists]
    ELSE [result : ResultType, error_msg : {None} \cup {Some(m) : m \in ErrorMsgs},
          value : IF Op_type = "SafeToRemove" THEN BOOLEAN ELSE {FALSE},
          disk : {<<>>}]

\* The match on op_result.get_result() of add_disk_request,
\* remove_disk_request and get_jira_tickets; not_set is the text of the
\* function's error for an ERR without error_msg.
op_result(reply, not_set) ==
    IF reply.result = "OK"
    THEN [ok |-> TRUE, err |-> None, value |-> None]
    ELSE IF has_error_msg(reply)
    THEN [ok |-> FALSE, err |-> Some(get_error_msg(reply)), value |-> None]
    ELSE [ok |-> FALSE, err |-> Some(not_set), value |-> None]

op_bool_value(reply) == [ok |-> TRUE, err |-> None, value |-> Some(reply.value)]

\* The match on op_result.get_result() of safe_to_remove_request.
op_bool_result(reply) ==
    IF reply.result = "OK"
    THEN [ok |-> TRUE, err |-> None, value |-> Some(reply.value)]
    ELSE [ok |-> FALSE, err |-> Some(get_error_msg(reply)), value |-> None]

\* list_disks_request: the disks of the decoded Disks message.
disks_result(reply) == [ok |-> TRUE, err |-> None, value |-> Some(reply.disk)]

\* What each request function makes of the decoded reply.
decode(function, reply) ==
    CASE function = "add_disk_request" ->
            op_result(reply, "Add disk failed but error_msg not set")
      [] function = "remove_disk_request" ->
            op_result(reply, "Remove disk failed but error_msg not set")
      [] function = "get_jira_tickets" ->
            op_result(reply, "Get jira tickets failed but error_msg not set")
      [] function = "safe_to_remove_request" -> op_bool_result(reply)
      [] function = "list_disks_request" -> disks_result(reply)

rpc_frame ==
    UNCHANGED <<callers, registrar_tables, hardware_tables, ledger, seq, disks, history>>

send_and_return(function, o) ==
    /\ call = None /\ wire.sent < MaxCalls
    /\ socket' = [socket EXCEPT !.outbox = Some(o)]
    /\ wire' = [wire EXCEPT !.sent = @ + 1, !.returned = @ + 1]
    /\ ret' = [op |-> function, ok |-> TRUE, err |-> None, value |-> None,
               reply |-> None]
    /\ UNCHANGED call
    /\ rpc_frame

\* The first half of a request function: build the Operation o, encode it,
\* s.send_msg, and block in s.recv_bytes.  `s: &mut Socket` keeps a second
\* call off the socket until this one returns.
send(function, o) ==
    /\ call = None /\ wire.sent < MaxCalls
    /\ socket' = [socket EXCEPT !.outbox = Some(o)]
    /\ call' = Some(function)
    /\ wire' = [wire EXCEPT !.sent = @ + 1]
    /\ UNCHANGED ret
    /\ rpc_frame

\* The daemon takes the request and answers it.
daemon_replies ==
    /\ socket.outbox # None /\ socket.inbox = None
    /\ \E reply \in Replies(Unwrap(socket.outbox).Op_type) :
          socket' = [outbox |-> None, inbox |-> Some(reply)]
    /\ UNCHANGED <<call, wire, ret>>
    /\ rpc_frame

\* The daemon fails a list request: by the wire contract it answers with a
\* result envelope whose result is ERR, with or without an error message,
\* and which carries no disk.
daemon_fails_list ==
    /\ socket.outbox # None /\ socket.inbox = None
    /\ Unwrap(socket.outbox).Op_type = "List"
    /\ \E error_msg \in {None} \cup {Some(m) : m \in ErrorMsgs} :
          socket' = [outbox |-> None,
                     inbox |-> Some([result |-> "ERR", error_msg |-> error_msg,
                                     value |-> FALSE, disk |-> <<>>])]
    /\ UNCHANGED <<call, wire, ret>>
    /\ rpc_frame

\* The second half of a request function: recv_bytes returns the reply,
\* parse_from_bytes decodes it and the function returns its result.
receive ==
    /\ call # None /\ socket.inbox # None
    /\ socket' = [socket EXCEPT !.inbox = None]
    /\ call' = None
    /\ wire' = [wire EXCEPT !.received = @ + 1, !.returned = @ + 1]
    /\ ret' = [op |-> Unwrap(call), reply |-> socket.inbox,
               ok |-> decode(Unwrap(call), Unwrap(socket.inbox)).ok,
               err |-> decode(Unwrap(call), Unwrap(socket.inbox)).err,
               value |-> decode(Unwrap(call), Unwrap(socket.inbox)).value]
    /\ rpc_frame

\* The calls of connect and of a request function that can fail, in the
\* order in which the function makes them.
Steps(function) ==
    IF function = "connect"
    THEN <<"socket", "CurveKeyPair::new", "set_curve_serverkey",
           "set_curve_publickey", "set_curve_secretkey", "connect">>
    ELSE <<"write_to_bytes", "Message::from_slice", "send_msg", "recv_bytes",
           "parse_from_bytes">>

\* What the function does with the failure of a step: '?' returns it as an
\* Err; `assert!(requester.connect(..).is_ok())` in connect and
\* `o.write_to_bytes().unwrap()` in add_disk_request panic.
on_failure(function, step) ==
    IF function = "connect" /\ step = "connect" THEN "panic"
    ELSE IF function = "add_disk_request" /\ step = "write_to_bytes" THEN "panic"
    ELSE "Err"

\* The process runs until a panic.
running == ~("outcome" \in DOMAIN ret /\ ret.outcome = "panic")

\* connect(host, port, server_publickey): a new REQ socket with the curve
\* keys set, connected to the daemon; `failed` is the step that fails, if
\* one does.
connect(failed) ==
    /\ running /\ call = None
    /\ socket' = IF failed = None THEN [outbox |-> None, inbox |-> None] ELSE socket
    /\ ret' = [op |-> "connect", ok |-> failed = None, failed |-> failed,
               outcome |-> IF failed = None THEN "Ok"
                           ELSE on_failure("connect", Unwrap(failed)),
               err |-> failed, value |-> None, reply |-> None]
    /\ UNCHANGED <<call, wire>>
    /\ rpc_frame

\* A request function in which encoding the Operation, making the Message
\* or send_msg fails: nothing is sent and the function is over.
send_fails(function, step) ==
    /\ running /\ call = None /\ wire.returned < MaxCalls
    /\ step \in {Steps(function)[i] : i \in 1..3}
    /\ wire' = [wire EXCEPT !.returned =
                                IF on_failure(function, step) = "Err" THEN @ + 1 ELSE @]
    /\ ret' = [op |-> function, ok |-> FALSE, failed |-> Some(step),
               outcome |-> on_failure(function, step),
               err |-> Some(step), value |-> None, reply |-> None]
    /\ UNCHANGED <<socket, call>>
    /\ rpc_frame

\* A request function in which recv_bytes fails, or parse_from_bytes on the
\* bytes received: the function is over.
receive_fails(step) ==
    /\ running /\ call # None
    /\ step \in {Steps(Unwrap(call))[i] : i \in 4..5}
    /\ step = "parse_from_bytes" => socket.inbox # None
    /\ socket' = IF step = "parse_from_bytes" THEN [socket EXCEPT !.inbox = None]
                  ELSE socket
    /\ call' = None
    /\ wire' = [wire EXCEPT !.received = IF step = "parse_from_bytes" THEN @ + 1 ELSE @,
                            !.returned = IF on_failure(Unwrap(call), step) = "Err"
                                         THEN @ + 1 ELSE @]
    /\ ret' = [op |-> Unwrap(call), ok |-> FALSE, failed |-> Some(step),
               outcome |-> on_failure(Unwrap(call), step),
               err |-> Some(step), value |-> None, reply |-> None]
    /\ rpc_frame

\* The Operation envelopes of the five request functions.
\* The paths a caller passes: one that is UTF-8, and one with the byte FF,
\* which is no UTF-8.
Paths == {"/dev/sdb", "/dev/sd<FF>"}

\* format!("{}", path.display()): the text of the path, with U+FFFD for
\* what is no UTF-8 in it.
display(path) == IF path = "/dev/sd<FF>" THEN "/dev/sd<U+FFFD>" ELSE path

OsdIds == {None, Some(7)}

add_disk_request(path, id, simulate) ==
    send("add_disk_request",
         [Op_type |-> "Add", disk |-> Some(display(path)), simulate |-> Some(simulate),
          osd_id |-> id])

remove_disk_sets_any_id(path, id, simulate) ==
    send("remove_disk_request",
         [Op_type |-> "Remove", disk |-> Some(display(path)), simulate |-> Some(simulate),
          osd_id |-> IF id = None THEN Some(0) ELSE id])

remove_disk_request(path, id, simulate) ==
    send("remove_disk_request",
         [Op_type |-> "Remove", disk |-> Some(display(path)), simulate |-> Some(simulate),
          osd_id |-> id])

list_disks_request ==
    send("list_disks_request",
         [Op_type |-> "List", disk |-> None, simulate |-> None, osd_id |-> None])

safe_to_remove_request(path) ==
    send("safe_to_remove_request",
         [Op_type |-> "SafeToRemove", disk |-> Some(display(path)), simulate |-> None,
          osd_id |-> None])

get_jira_tickets ==
    send("get_jira_tickets",
         [Op_type |-> "GetCreatedTickets", disk |-> None, simulate |-> None,
          osd_id |-> None])

IdleSocket ==
    /\ socket = [outbox |-> None, inbox |-> None]
    /\ call = None
    /\ wire = [sent |-> 0, received |-> 0, returned |-> 0]

\* A single caller that makes one call after the other: no concurrent caller.
NoCallers == {<<>>}

\* ------------------------------------------------------ Concurrent callers
\* Threads or processes that call the ledger at the same time, each with a
\* connection of its own from the pool.  A call is a sequence of steps, one
\* per statement sent to the store; the steps of different callers interleave.
Callers == {"c1", "c2"}

\* A caller outside any call: no connection, no transaction.  `conn` counts
\* the PooledConnections it holds, `arg` are the arguments of its call,
\* `local` the locals of the call it is in, `result` the result of its last
\* call and device_database_id the id in its own BlockDevice struct.
idle_caller(arg) ==
    [pc |-> "idle", fn |-> "none", conn |-> 0, txn |-> "none", arg |-> arg,
     local |-> None, result |-> None, device_database_id |-> None]

\* Pool::builder().max_size(10).
max_size == 10

RECURSIVE connections_of(_)
\* The number of connections that the callers in `holders` hold together.
connections_of(holders) ==
    IF holders = {} THEN 0
    ELSE LET c == CHOOSE h \in holders : TRUE
         IN  callers[c].conn + connections_of(holders \ {c})

\* The number of connections that are checked out.
checked_out == connections_of(DOMAIN callers)

\* pool.get() returns at once: the pool has an idle connection or may open
\* one.
pool_has_connection == checked_out < max_size

connection_leaks_on_error(held, ok) == IF ok THEN held - 1 ELSE held

\* `conn` goes out of scope when the function returns, with Ok or with Err:
\* the PooledConnection goes back to the pool.
drop_connection(held, ok) == held - 1

\* add_disk_detail of caller c, up to the result of its SELECT: the
\* connection, and the rows that carry the natural key of its struct.
add_disk_detail_select(c) ==
    /\ callers[c].pc = "idle" /\ pool_has_connection
    /\ callers' = [callers EXCEPT
                      ![c].pc = "stmt_query", ![c].fn = "add_disk_detail",
                      ![c].conn = @ + 1, ![c].result = None,
                      ![c].local = select_device(hardware, BlockDevice[callers[c].arg])]
    /\ UNCHANGED <<rpc, registrar_tables, hardware_tables, ledger, seq, disks, ret,
                   history>>

\* add_disk_detail of caller c, from the result of its SELECT to its return:
\* the INSERT when the SELECT found no row, the comparison of the ids when
\* it found one; the connection goes back to the pool.
add_disk_detail_return(c) ==
    LET disk_info == BlockDevice[callers[c].arg]
        known == callers[c].device_database_id
        stmt_query == callers[c].local
    IN  /\ callers[c].pc = "stmt_query" /\ callers[c].fn = "add_disk_detail"
        /\ IF stmt_query = {}
           THEN /\ seq.hardware < MaxId
                /\ hardware' = hardware \cup
                       {new_hardware_row(seq.hardware + 1, disk_info,
                                         disk_hardware_type(hardware_types))}
                /\ seq' = [seq EXCEPT !.hardware = @ + 1]
                /\ callers' = [callers EXCEPT
                                  ![c].pc = "idle", ![c].conn = drop_connection(@, TRUE), ![c].local = None,
                                  ![c].device_database_id = Some(seq.hardware + 1),
                                  ![c].result = Some([ok |-> TRUE, inserted |-> TRUE])]
                /\ ret' = [op |-> "add_disk_detail", ok |-> TRUE, caller |-> c,
                           known |-> known, inserted |-> TRUE, err |-> None]
           ELSE LET id == FirstBy(stmt_query, "device_id").device_id
                    m == match_device_database_id(known, id)
                IN  /\ callers' = [callers EXCEPT
                                      ![c].pc = "idle", ![c].conn = drop_connection(@, TRUE),
                                      ![c].local = None,
                                      ![c].device_database_id = m.device_database_id,
                                      ![c].result = Some([ok |-> m.ok,
                                                          inserted |-> FALSE])]
                    /\ ret' = [op |-> "add_disk_detail", ok |-> m.ok, caller |-> c,
                               known |-> known, inserted |-> FALSE, err |-> m.err]
                    /\ UNCHANGED <<hardware, seq>>
        /\ UNCHANGED <<rpc, registrar_tables, hardware_types, ledger, disks, history>>

\* A transaction of conn.transaction(): "open" rolls back by default,
\* "commit" is open and marked by set_commit(); finish() ends it as
\* "committed" or "rolled_back", and a transaction that goes out of scope
\* unfinished is rolled back by its drop ("dropped").
Unfinished == {"open", "commit"}

\* The rows a transaction has written and not yet committed: inserted rows
\* per table, the process_manager rows whose status it set to 'idle', and
\* the hardware table as its UPDATE leaves it.
no_writes ==
    [process_manager |-> {}, idle |-> {}, regions |-> {}, storage_details |-> {},
     hardware |-> None]

\* What a statement of the transaction reads under the store's default
\* isolation (read committed): the committed rows and the transaction's own
\* writes, not the uncommitted writes of others.
view_of_process_manager(writes) ==
    {IF r.entry_id \in writes.idle THEN [r EXCEPT !.status = "idle"] ELSE r
        : r \in process_manager} \cup writes.process_manager

\* The caller leaves the call with `outcome`: an early return by '?' or
\* `return Err`, or the last expression.
leaves_with(c, outcome) ==
    callers' = [callers EXCEPT ![c].pc = "return", ![c].result = Some(outcome)]

\* update_storage_info of caller c: the connection and the transaction.
update_storage_info_begin(c) ==
    /\ callers[c].pc = "idle" /\ pool_has_connection
    /\ callers' = [callers EXCEPT
                      ![c].pc = "register_to_process_manager",
                      ![c].fn = "update_storage_info", ![c].conn = @ + 1,
                      ![c].txn = "open", ![c].result = None,
                      ![c].local = [writes |-> no_writes, entry_id |-> 0, region_id |-> 0,
                                    detail_id |-> 0, propagates |-> FALSE,
                                    then |-> [ok |-> FALSE]]]
    /\ UNCHANGED <<rpc, registrar_tables, hardware_tables, ledger, seq, disks, ret,
                   history>>

\* let entry_id = register_to_process_manager(&transaction, &ip_address)?
update_storage_info_process_manager(c, failed) ==
    LET local == callers[c].local
        conn == view_of_process_manager(local.writes)
        t1 == register_to_process_manager(conn, seq.process_manager, callers[c].arg.pid,
                                          callers[c].arg.s_info.ip)
    IN  /\ callers[c].pc = "register_to_process_manager"
        /\ IF failed
           THEN leaves_with(c, [ok |-> FALSE]) /\ UNCHANGED seq
           ELSE /\ t1.last <= MaxId
                /\ seq' = [seq EXCEPT !.process_manager = t1.last]
                /\ callers' = [callers EXCEPT
                       ![c].pc = "update_region",
                       ![c].local.entry_id = t1.entry_id,
                       ![c].local.writes.process_manager = @ \cup (t1.table \ conn),
                       ![c].local.writes.idle =
                           IF t1.exists
                           THEN @ \cup {r.entry_id : r \in
                                           {q \in conn : /\ q.pid = callers[c].arg.pid
                                                         /\ q.ip = callers[c].arg.s_info.ip}}
                           ELSE @]
        /\ UNCHANGED <<rpc, registrar_tables, hardware_tables, ledger, disks, ret, history>>

\* let region_id = update_region(&transaction, &s_info.region)?
update_storage_info_region(c, failed) ==
    LET local == callers[c].local
        conn == regions \cup local.writes.regions
        t2 == update_region(conn, seq.regions, callers[c].arg.s_info.region)
    IN  /\ callers[c].pc = "update_region"
        /\ IF failed
           THEN leaves_with(c, [ok |-> FALSE]) /\ UNCHANGED seq
           ELSE /\ t2.last <= MaxId
                /\ seq' = [seq EXCEPT !.regions = t2.last]
                /\ callers' = [callers EXCEPT
                       ![c].pc = "update_storage_details",
                       ![c].local.region_id = t2.region_id,
                       ![c].local.writes.regions = @ \cup (t2.table \ conn)]
        /\ UNCHANGED <<rpc, registrar_tables, hardware_tables, ledger, disks, ret, history>>

\* let detail_id = update_storage_details(&transaction, &s_info, region_id)?
update_storage_info_storage_details(c, failed) ==
    LET local == callers[c].local
        conn == storage_details \cup local.writes.storage_details
        t3 == update_storage_details(storage_types, conn, seq.storage_details,
                                     callers[c].arg.s_info, local.region_id)
    IN  /\ callers[c].pc = "update_storage_details"
        /\ IF failed
           THEN leaves_with(c, [ok |-> FALSE]) /\ UNCHANGED seq
           ELSE /\ t3.last <= MaxId
                /\ seq' = [seq EXCEPT !.storage_details = t3.last]
                /\ callers' = [callers EXCEPT
                       ![c].pc = "set_commit",
                       ![c].local.detail_id = t3.detail_id,
                       ![c].local.writes.storage_details = @ \cup (t3.table \ conn)]
        /\ UNCHANGED <<rpc, registrar_tables, hardware_tables, ledger, disks, ret, history>>

\* The branch of update_storage_info on the three ids: `return Err` on a
\* zero id, set_commit() otherwise.  After finish(), whose result is
\* discarded, the function returns Ok(mapping).
update_storage_info_set_commit(c) ==
    LET local == callers[c].local
    IN  /\ callers[c].pc = "set_commit"
        /\ IF ~set_commit(local.entry_id, local.region_id, local.detail_id)
           THEN leaves_with(c, [ok |-> FALSE])
           ELSE callers' = [callers EXCEPT
                   ![c].pc = "finish", ![c].txn = "commit",
                   ![c].local.propagates = FALSE,
                   ![c].local.then = [ok |-> TRUE, entry_id |-> local.entry_id,
                                      region_id |-> local.region_id,
                                      storage_detail_id |-> local.detail_id]]
        /\ UNCHANGED <<rpc, registrar_tables, hardware_tables, ledger, seq, disks, ret,
                       history>>

\* save_state and save_smart_result of caller c, up to the transaction: the
\* connection, then the error when the struct has no device id.
save_begin(c, fn, column, value) ==
    /\ callers[c].pc = "idle" /\ pool_has_connection
    /\ callers' = [callers EXCEPT
          ![c].fn = fn, ![c].conn = @ + 1,
          ![c].pc = IF callers[c].device_database_id = None THEN "return" ELSE "execute",
          ![c].txn = IF callers[c].device_database_id = None THEN "none" ELSE "open",
          ![c].result = IF callers[c].device_database_id = None
                           THEN Some([ok |-> FALSE]) ELSE None,
          ![c].local = [writes |-> no_writes, column |-> column, value |-> value,
                        propagates |-> fn = "save_smart_result", then |-> [ok |-> FALSE]]]
    /\ UNCHANGED <<rpc, registrar_tables, hardware_tables, ledger, seq, disks, ret,
                   history>>

save_state_begin(c, state) == save_begin(c, "save_state", "state", State_to_string(state))

save_smart_result_begin(c, smart_passed) ==
    save_begin(c, "save_smart_result", "smart_passed", Some(smart_passed))

\* transaction.execute(UPDATE hardware ...)? and the branch on the number
\* of rows: set_rollback() and the error unless it is one, set_commit() and
\* Ok(()) when it is.
save_execute(c, failed) ==
    LET local == callers[c].local
        dev_id == Unwrap(callers[c].device_database_id)
        u == update_hardware(hardware, dev_id, local.column, local.value)
    IN  /\ callers[c].pc = "execute"
        /\ IF failed
           THEN leaves_with(c, [ok |-> FALSE])
           ELSE callers' = [callers EXCEPT
                   ![c].pc = "finish",
                   ![c].txn = IF not_one_row(u.count) THEN "open" ELSE "commit",
                   ![c].local.writes.hardware = Some(u.table),
                   ![c].local.then = [ok |-> ~not_one_row(u.count)]]
        /\ UNCHANGED <<rpc, registrar_tables, hardware_tables, ledger, seq, disks, ret,
                       history>>

\* transaction.finish(): COMMIT when the transaction is marked to commit,
\* ROLLBACK otherwise; `failed` is a COMMIT or ROLLBACK that fails, which
\* leaves nothing committed.  The function then returns: the error of
\* finish() where it is propagated by '?', its own result otherwise.
transaction_finish(c, failed) ==
    LET local == callers[c].local
        writes == local.writes
        committed == callers[c].txn = "commit" /\ ~failed
    IN  /\ callers[c].pc = "finish"
        /\ callers' = [callers EXCEPT
               ![c].pc = "return",
               ![c].txn = IF committed THEN "committed" ELSE "rolled_back",
               ![c].result = Some(IF failed /\ local.propagates THEN [ok |-> FALSE]
                                                                ELSE local.then)]
        /\ process_manager' = IF committed THEN view_of_process_manager(writes)
                                           ELSE process_manager
        /\ regions' = IF committed THEN regions \cup writes.regions ELSE regions
        /\ storage_details' = IF committed
                                 THEN storage_details \cup writes.storage_details
                                 ELSE storage_details
        /\ hardware' = IF committed /\ writes.hardware # None
                          THEN Unwrap(writes.hardware) ELSE hardware
        /\ UNCHANGED <<rpc, storage_types, hardware_types, ledger, seq, disks, ret,
                       history>>

transaction_leaks(txn) == txn

\* The transaction goes out of scope: one that was not finished is rolled
\* back by its drop.
drop_transaction(txn) == IF txn \in Unfinished THEN "dropped" ELSE txn

\* The caller's function returns: its locals are dropped in the reverse
\* order of their declaration, the transaction before the connection, which
\* goes back to the pool.
caller_returns(c) ==
    /\ callers[c].pc = "return"
    /\ callers' = [callers EXCEPT
                      ![c].pc = "idle", ![c].local = None,
                      ![c].txn = drop_transaction(@), ![c].conn = drop_connection(@, TRUE)]
    /\ ret' = [op |-> callers[c].fn, ok |-> Unwrap(callers[c].result).ok, caller |-> c]
    /\ UNCHANGED <<rpc, registrar_tables, hardware_tables, ledger, seq, disks, history>>

\* A pool without a connection_timeout: pool.get() waits until a connection
\* is free.
pool_get_waits_forever(c) ==
    /\ FALSE
    /\ UNCHANGED vars

\* The pool's connection_timeout (300 s) elapses while caller c waits in
\* pool.get(): pool.get() returns an error, which get_connection_from_pool
\* and then the ledger function return with '?'.  The caller holds nothing.
pool_get_times_out(c) ==
    /\ callers[c].pc = "pool.get"
    /\ callers' = [callers EXCEPT ![c] = idle_caller(callers[c].arg)]
    /\ ret' = [op |-> callers[c].fn, ok |-> FALSE, value |-> FALSE, timed_out |-> TRUE]
    /\ UNCHANGED <<rpc, registrar_tables, hardware_tables, ledger, seq, disks, history>>

\* pool.get() returns a connection to the waiting caller c.
pool_get_returns(c) ==
    /\ callers[c].pc = "pool.get"
    /\ pool_has_connection
    /\ callers' = [callers EXCEPT ![c].pc = "conn", ![c].conn = @ + 1]
    /\ UNCHANGED <<rpc, registrar_tables, hardware_tables, ledger, seq, disks, ret, history>>

\* Caller c calls is_hardware_waiting_repair: its first statement is
\* get_connection_from_pool(pool), which returns at once when the pool has
\* a connection and waits in pool.get() otherwise.
is_hardware_waiting_repair_begin(c) ==
    /\ callers[c].pc = "idle"
    /\ callers' = [callers EXCEPT
                      ![c].fn = "is_hardware_waiting_repair",
                      ![c].pc = IF pool_has_connection THEN "conn" ELSE "pool.get",
                      ![c].conn = IF pool_has_connection THEN @ + 1 ELSE @]
    /\ UNCHANGED <<rpc, registrar_tables, hardware_tables, ledger, seq, disks, ret, history>>

\* Caller c, holding its connection, runs the query of
\* is_hardware_waiting_repair and returns: Err when the statement fails
\* ('?'), the answer otherwise.  The function's frame is gone, and `conn`
\* with it.
is_hardware_waiting_repair_return(c, failed) ==
    LET answer == hardware_waiting_repair(callers[c].arg.storage_detail_id,
                                          callers[c].arg.device_name,
                                          callers[c].arg.serial_number)
        ok == ~failed /\ answer.ok
    IN  /\ callers[c].pc = "conn"
        /\ callers' = [callers EXCEPT
                          ![c] = [idle_caller(callers[c].arg) EXCEPT
                                     !.conn = drop_connection(callers[c].conn, ok)]]
        /\ ret' = [op |-> callers[c].fn, ok |-> ok, value |-> ok /\ answer.value,
                   timed_out |-> FALSE]
        /\ UNCHANGED <<rpc, registrar_tables, hardware_tables, ledger, seq, disks, history>>

\* ------------------------------------------------------------------- Init
\* A fresh database: empty tables, sequences at 0, and the reference table
\* storage_types as the deployment loaded it (it may lack a type).
ReferenceStorageTypes ==
    {{[storage_id |-> 1, storage_type |-> "ceph"]},
     {[storage_id |-> 1, storage_type |-> "ceph"],
      [storage_id |-> 2, storage_type |-> "scaleio"]}}

\* operation_types as the deployment loaded it: one row per operation type.
OperationTypes ==
    {[type_id |-> 1, op_name |-> "diskadd"], [type_id |-> 2, op_name |-> "diskreplace"],
     [type_id |-> 3, op_name |-> "diskremove"],
     [type_id |-> 4, op_name |-> "waiting_for_replacement"],
     [type_id |-> 5, op_name |-> "evaluation"]}

\* The states of operation_types the type lookup distinguishes: as loaded,
\* with the evaluation row missing, with waiting_for_replacement twice.
ReferenceOperationTypes ==
    {OperationTypes,
     OperationTypes \ {[type_id |-> 5, op_name |-> "evaluation"]},
     OperationTypes \cup {[type_id |-> 6, op_name |-> "waiting_for_replacement"]}}

EmptyLedgerWith(types) ==
    /\ operation_types \in types
    /\ operations = {}
    /\ operation_details = {}
    /\ now = 1
    /\ op_infos = [s \in OpSlots |-> None]
    /\ op_details = [s \in DetailSlots |-> None]

EmptyLedger == EmptyLedgerWith({OperationTypes})

InitRegistrarFor(who) ==
    /\ process_manager = {}
    /\ regions = {}
    /\ storage_types \in ReferenceStorageTypes
    /\ storage_details = {}
    /\ hardware_types \in ReferenceHardwareTypes
    /\ hardware = {}
    /\ EmptyLedger
    /\ IdleSocket /\ callers \in who
    /\ seq = [process_manager |-> 0, regions |-> 0, storage_details |-> 0, hardware |-> 0,
              operations |-> 0, operation_details |-> 0]
    /\ disks = [d \in DOMAIN BlockDevice |-> [device_database_id |-> None]]
    /\ ret = [op |-> "none", ok |-> TRUE]
    /\ returned = [k \in Pids \X Ips |-> {}]
    /\ reconciled = [d \in DOMAIN BlockDevice |-> {}]
    /\ saved = {}

InitRegistrar == InitRegistrarFor(NoCallers)

RegisterHost ==
    \E pid \in Pids, s_info \in MyHost : update_storage_info(pid, s_info, "none")

RegisterHostFaulty ==
    \E pid \in {DaemonPid}, s_info \in MyHost, fault \in RegistrationFaults :
        update_storage_info(pid, s_info, fault)

Deregister == deregister_from_process_manager

NextRegistrar == RegisterHost \/ Deregister

SpecRegistrar == InitRegistrar /\ [][NextRegistrar]_vars

NextRegistrarFaulty == RegisterHostFaulty \/ Deregister

SpecRegistrarFaulty == InitRegistrar /\ [][NextRegistrarFaulty]_vars

\* The store after host-a has registered (pid 100, storage type ceph): the
\* state in which the daemon starts to reconcile its disks.
InitHardwareFor(stored, who) ==
    /\ process_manager = {[entry_id |-> 1, pid |-> DaemonPid, ip |-> "10.0.0.1",
                           status |-> "idle"]}
    /\ regions = {[region_id |-> 1, region_name |-> "us-east"]}
    /\ storage_types = {[storage_id |-> 1, storage_type |-> "ceph"]}
    /\ storage_details = {[detail_id |-> 1, storage_id |-> 1, region_id |-> 1,
                           hostname |-> "host-a", name_key1 |-> None,
                           name_key2 |-> None]}
    /\ hardware_types \in ReferenceHardwareTypes
    /\ hardware \in stored
    /\ EmptyLedger
    /\ IdleSocket /\ callers \in who
    /\ seq = [process_manager |-> 1, regions |-> 1, storage_details |-> 1,
              hardware |-> Cardinality(hardware), operations |-> 0,
              operation_details |-> 0]
    /\ disks = [d \in DOMAIN BlockDevice |-> [device_database_id |-> None]]
    /\ ret = [op |-> "none", ok |-> TRUE]
    /\ returned = [k \in Pids \X Ips |-> IF k = <<DaemonPid, "10.0.0.1">> THEN {1} ELSE {}]
    /\ reconciled = [d \in DOMAIN BlockDevice |-> {}]
    /\ saved = {}

InitHardwareWith(stored) == InitHardwareFor(stored, NoCallers)

\* The store of two registered hosts (storage details 1 and 2) with their
\* disks reconciled and their states saved: on host 1 a disk waiting for
\* replacement, a good one and an unscanned one, on host 2 a disk waiting
\* for replacement.
LedgerHardware ==
    {[device_id |-> 1, detail_id |-> 1, device_path |-> "/dev/sda", device_name |-> "sda",
      state |-> "waiting_for_replacement", hardware_type |-> 2, mount_path |-> None,
      device_uuid |-> Some("uuid-a"), serial_number |-> Some("123456"),
      smart_passed |-> None],
     [device_id |-> 2, detail_id |-> 1, device_path |-> "/dev/sdb", device_name |-> "sdb",
      state |-> "good", hardware_type |-> 2, mount_path |-> Some("/mnt/sdb"),
      device_uuid |-> None, serial_number |-> None, smart_passed |-> None],
     [device_id |-> 3, detail_id |-> 1, device_path |-> "/dev/sdc", device_name |-> "sdc",
      state |-> "unscanned", hardware_type |-> 2, mount_path |-> None,
      device_uuid |-> None, serial_number |-> None, smart_passed |-> None],
     [device_id |-> 4, detail_id |-> 2, device_path |-> "/dev/sda", device_name |-> "sda",
      state |-> "waiting_for_replacement", hardware_type |-> 2, mount_path |-> None,
      device_uuid |-> None, serial_number |-> None, smart_passed |-> None]}

InitLedgerFor(types, who) ==
    /\ process_manager = {[entry_id |-> 1, pid |-> DaemonPid, ip |-> "10.0.0.1",
                           status |-> "idle"],
                          [entry_id |-> 2, pid |-> DaemonPid, ip |-> "10.0.0.2",
                           status |-> "idle"]}
    /\ regions = {[region_id |-> 1, region_name |-> "us-east"]}
    /\ storage_types = {[storage_id |-> 1, storage_type |-> "ceph"]}
    /\ storage_details = {[detail_id |-> 1, storage_id |-> 1, region_id |-> 1,
                           hostname |-> "host-a", name_key1 |-> None,
                           name_key2 |-> None],
                          [detail_id |-> 2, storage_id |-> 1, region_id |-> 1,
                           hostname |-> "host-b", name_key1 |-> None,
                           name_key2 |-> None]}
    /\ hardware_types \in ReferenceHardwareTypes
    /\ hardware = LedgerHardware
    /\ EmptyLedgerWith(types)
    /\ IdleSocket /\ callers \in who
    /\ seq = [process_manager |-> 2, regions |-> 1, storage_details |-> 2,
              hardware |-> Cardinality(LedgerHardware), operations |-> 0,
              operation_details |-> 0]
    /\ disks = [d \in DOMAIN BlockDevice |-> [device_database_id |-> None]]
    /\ ret = [op |-> "none", ok |-> TRUE]
    /\ returned = [k \in Pids \X Ips |-> {}]
    /\ reconciled = [d \in DOMAIN BlockDevice |-> {}]
    /\ saved = {}

InitLedgerWith(types) == InitLedgerFor(types, NoCallers)

InitLedger == InitLedgerWith({OperationTypes})

InitDetails == InitLedgerWith(ReferenceOperationTypes)

InitHardware == InitHardwareWith({{}})

\* The hardware table of the host before the daemon starts: empty, or with
\* the row of sda as another release of the daemon left it, in a state this
\* release does not know.
StoredHardware ==
    {{}, {[device_id |-> 1, detail_id |-> 1, device_path |-> "/dev/sda",
           device_name |-> "sda", state |-> "retired", hardware_type |-> 2,
           mount_path |-> None, device_uuid |-> Some("uuid-a"),
           serial_number |-> Some("123456"), smart_passed |-> Some(TRUE)]}}

InitHealthRead == InitHardwareWith(StoredHardware)

AddDiskDetail == \E d \in DOMAIN BlockDevice : add_disk_detail(d)

ClearDeviceId == \E d \in DOMAIN BlockDevice : clear_device_database_id(d)

\* The ids a caller may hold from elsewhere: those of the two disks' rows
\* and one no row can have here.
PresetIds == {1, 2, 3}

SetDeviceId == \E d \in DOMAIN BlockDevice, i \in PresetIds : set_device_database_id(d, i)

SaveState ==
    \E d \in DOMAIN BlockDevice, state \in State :
        /\ save_state(d, state, "none")
        /\ UNCHANGED <<clients, registrar_tables, hardware_types, ledger, seq, disks, returned, reconciled>>

SaveStateFaulty ==
    \E d \in DOMAIN BlockDevice, state \in State, fault \in SaveFaults :
        /\ save_state(d, state, fault)
        /\ UNCHANGED <<clients, registrar_tables, hardware_types, ledger, seq, disks, returned, reconciled>>

SaveSmartResult ==
    \E d \in DOMAIN BlockDevice, smart_passed \in BOOLEAN :
        /\ save_smart_result(d, smart_passed, "none")
        /\ UNCHANGED <<clients, registrar_tables, hardware_types, ledger, seq, disks, history>>

SaveSmartResultFaulty ==
    \E d \in DOMAIN BlockDevice, smart_passed \in BOOLEAN, fault \in SaveFaults :
        /\ save_smart_result(d, smart_passed, fault)
        /\ UNCHANGED <<clients, registrar_tables, hardware_types, ledger, seq, disks, history>>

GetState ==
    \E d \in DOMAIN BlockDevice :
        /\ get_state(d)
        /\ UNCHANGED <<clients, registrar_tables, hardware_tables, ledger, seq, disks, history>>

GetSmartResult ==
    \E d \in DOMAIN BlockDevice :
        /\ get_smart_result(d)
        /\ UNCHANGED <<clients, registrar_tables, hardware_tables, ledger, seq, disks, history>>

NextHealthRead ==
    \/ AddDiskDetail \/ ClearDeviceId \/ SetDeviceId \/ SaveState \/ SaveSmartResult
    \/ GetState \/ GetSmartResult

\* The four calls of the State & Health Store on the disks of a host whose
\* structs hold the right id, a wrong one or none.
SpecHealthRead == InitHealthRead /\ [][NextHealthRead]_vars

NextInventory == AddDiskDetail \/ ClearDeviceId \/ SetDeviceId

SpecInventory == InitHardware /\ [][NextInventory]_vars

NextHealth ==
    \/ AddDiskDetail \/ SetDeviceId
    \/ SaveState \/ SaveSmartResult \/ GetState

SpecHealth == InitHardware /\ [][NextHealth]_vars

NextHealthFaulty == AddDiskDetail \/ SaveStateFaulty \/ SaveSmartResultFaulty \/ GetState

SpecHealthFaulty == InitHardware /\ [][NextHealthFaulty]_vars

NewOperationInfo(slots, entry_ids, device_ids) ==
    \E s \in slots, entry_id \in entry_ids, device_id \in device_ids :
        new_operation_info(s, entry_id, device_id)

SetSnapshotTime == \E s \in OpSlots : set_snapshot_time(s)

SetDoneTime == \E s \in OpSlots : set_done_time(s)

DescribeOperation == \E s \in OpSlots : describe_operation(s)

ReassignOperation == \E s \in OpSlots : reassign_operation(s)

AddOrUpdateOperation == \E s \in OpSlots : add_or_update_operation(s)

NextOperations ==
    \/ NewOperationInfo({"op_info"}, {0, 1}, {1, 2}) \/ SetSnapshotTime \/ SetDoneTime
    \/ DescribeOperation \/ ReassignOperation \/ AddOrUpdateOperation

\* The operations of one OperationInfo on the store in which the daemon has
\* registered and reconciled.
SpecOperations == InitLedger /\ [][NextOperations]_vars

\* OperationDetail::new for an Operation the caller has created.
NewOperationDetail(slots, types) ==
    \E s \in slots, o \in OpSlots, op_type \in types :
        /\ op_infos[o] # None /\ Unwrap(op_infos[o]).operation_id # None
        /\ new_operation_detail(s, Unwrap(Unwrap(op_infos[o]).operation_id), op_type)

\* The ticket the caller has opened for the detail in each slot.
TrackingId == [op_detail |-> "JIRA-1", op_detail2 |-> "JIRA-2"]

SetTrackingId == \E s \in DetailSlots : set_tracking_id(s, TrackingId[s])

SetOperationStatus ==
    \E s \in DetailSlots, status \in OperationStatus : set_operation_status(s, status)

SetDetailDoneTime == \E s \in DetailSlots : set_detail_done_time(s)

AddOrUpdateOperationDetail == \E s \in DetailSlots : add_or_update_operation_detail(s)

GetOutstandingRepairTickets ==
    \E detail_id \in {1, 2} : get_outstanding_repair_tickets(detail_id)

NextTickets ==
    \/ NewOperationInfo({"op_info"}, {1}, {1, 2, 3, 4}) \/ AddOrUpdateOperation
    \/ NewOperationDetail({"op_detail"}, {"WaitingForReplacement", "Evaluation"})
    \/ NewOperationDetail({"op_detail2"}, {"WaitingForReplacement"})
    \/ SetTrackingId \/ SetOperationStatus \/ AddOrUpdateOperationDetail
    \/ GetOutstandingRepairTickets

\* One Operation on a disk of either host, its details, and the ticket query.
SpecTickets == InitLedger /\ [][NextTickets]_vars

NextTicketOrder ==
    \/ NewOperationInfo(OpSlots, {1}, {1, 2}) \/ AddOrUpdateOperation
    \/ NewOperationDetail(DetailSlots, {"WaitingForReplacement"})
    \/ SetTrackingId \/ AddOrUpdateOperationDetail
    \/ GetOutstandingRepairTickets

\* Two Operations on the disks of host 1, their waiting_for_replacement
\* details, and the ticket query.
SpecTicketOrder == InitLedger /\ [][NextTicketOrder]_vars

NextDetails ==
    \/ NewOperationInfo({"op_info"}, {1}, {1}) \/ AddOrUpdateOperation
    \/ NewOperationDetail({"op_detail"}, {"WaitingForReplacement", "Evaluation", "DiskAdd"})
    \/ SetTrackingId \/ SetOperationStatus \/ SetDetailDoneTime
    \/ AddOrUpdateOperationDetail \/ GetOutstandingRepairTickets

\* One detail of one Operation under each state of the reference table.
SpecDetails == InitDetails /\ [][NextDetails]_vars

ResolveTicket ==
    \E s \in DetailSlots : resolve_ticket_in_db(TrackingId[s])

NextResolve ==
    \/ NewOperationInfo({"op_info"}, {1}, {1}) \/ AddOrUpdateOperation
    \/ NewOperationDetail(DetailSlots, {"WaitingForReplacement"})
    \/ SetTrackingId \/ AddOrUpdateOperationDetail
    \/ ResolveTicket \/ GetOutstandingRepairTickets

\* The tickets of one Operation: opened, resolved and queried.
SpecResolve == InitLedger /\ [][NextResolve]_vars

\* tests::test_db_apis, the calls in the order of the test, on a fresh store.
\* The disk the test has reconciled, and its struct:
TheDisk == CHOOSE d \in DOMAIN BlockDevice : disks[d].device_database_id # None

Reconciled == \E d \in DOMAIN BlockDevice : disks[d].device_database_id # None

\* The struct of slot s once the caller has made it, its row once inserted.
Made(structs, s) == structs[s] # None

Inserted(s) == Made(op_details, s) /\ Unwrap(op_details[s]).op_detail_id # None

RowOf(s) ==
    CHOOSE r \in operation_details :
        Some(r.operation_detail_id) = Unwrap(op_details[s]).op_detail_id

TestRegister ==
    /\ process_manager = {}
    /\ \E s_info \in MyHost : update_storage_info(DaemonPid, s_info, "none")

TestReconcile ==
    /\ process_manager # {} /\ ~Reconciled
    /\ \E d \in DOMAIN BlockDevice :
          /\ \E r \in storage_details : r.detail_id = BlockDevice[d].storage_detail_id
          /\ add_disk_detail(d)

TestNewOperation ==
    /\ Reconciled /\ ~Made(op_infos, "op_info")
    /\ \E r \in process_manager :
          new_operation_info("op_info", r.entry_id,
                             Unwrap(disks[TheDisk].device_database_id))

TestAddOperation ==
    /\ Made(op_infos, "op_info") /\ Unwrap(op_infos["op_info"]).operation_id = None
    /\ add_or_update_operation("op_info")

TestNewEvaluation ==
    /\ Made(op_infos, "op_info") /\ Unwrap(op_infos["op_info"]).operation_id # None
    /\ ~Made(op_details, "op_detail")
    /\ new_operation_detail("op_detail", Unwrap(Unwrap(op_infos["op_info"]).operation_id),
                            "Evaluation")

TestAddEvaluation ==
    /\ Made(op_details, "op_detail") /\ ~Inserted("op_detail")
    /\ add_or_update_operation_detail("op_detail")

TestEvaluationInProgress ==
    /\ Inserted("op_detail") /\ Unwrap(op_details["op_detail"]).status = "Pending"
    /\ set_operation_status("op_detail", "InProgress")

TestUpdateEvaluation ==
    /\ Inserted("op_detail") /\ Unwrap(op_details["op_detail"]).status = "InProgress"
    /\ RowOf("op_detail").status = "pending"
    /\ add_or_update_operation_detail("op_detail")

TestNewWaiting ==
    /\ Inserted("op_detail") /\ RowOf("op_detail").status = "in_progress"
    /\ ~Made(op_details, "op_detail2")
    /\ new_operation_detail("op_detail2", Unwrap(Unwrap(op_infos["op_info"]).operation_id),
                            "WaitingForReplacement")

TestWaitingInProgress ==
    /\ Made(op_details, "op_detail2") /\ Unwrap(op_details["op_detail2"]).status = "Pending"
    /\ set_operation_status("op_detail2", "InProgress")

TestSetTrackingId ==
    /\ Made(op_details, "op_detail2")
    /\ Unwrap(op_details["op_detail2"]).status = "InProgress"
    /\ Unwrap(op_details["op_detail2"]).tracking_id = None
    /\ set_tracking_id("op_detail2", "ABC-1234")

TestAddWaiting ==
    /\ Made(op_details, "op_detail2") /\ ~Inserted("op_detail2")
    /\ Unwrap(op_details["op_detail2"]).tracking_id # None
    /\ add_or_update_operation_detail("op_detail2")

TestSaveState ==
    /\ Inserted("op_detail2")
    /\ \E state \in State :
          /\ save_state(TheDisk, state, "none")
          /\ UNCHANGED <<clients, registrar_tables, hardware_types, ledger, seq, disks, returned,
                         reconciled>>

TestQuery ==
    /\ Inserted("op_detail2")
    /\ get_outstanding_repair_tickets(BlockDevice[TheDisk].storage_detail_id)

NextTest ==
    \/ TestRegister \/ TestReconcile \/ TestNewOperation \/ TestAddOperation
    \/ TestNewEvaluation \/ TestAddEvaluation \/ TestEvaluationInProgress
    \/ TestUpdateEvaluation \/ TestNewWaiting \/ TestWaitingInProgress
    \/ TestSetTrackingId \/ TestAddWaiting \/ TestSaveState \/ TestQuery

SpecTest == InitRegistrar /\ [][NextTest]_vars

AddDiskRequest ==
    \E path \in Paths, id \in OsdIds, simulate \in BOOLEAN :
        add_disk_request(path, id, simulate)

RemoveDiskRequest ==
    \E path \in Paths, id \in OsdIds, simulate \in BOOLEAN :
        remove_disk_request(path, id, simulate)

SafeToRemoveRequest == \E path \in Paths : safe_to_remove_request(path)

NextRpc ==
    \/ AddDiskRequest \/ RemoveDiskRequest \/ list_disks_request
    \/ SafeToRemoveRequest \/ get_jira_tickets \/ daemon_replies \/ receive

\* A client that calls the five request functions on one socket, and the
\* daemon that answers.
SpecRpc == InitLedger /\ [][NextRpc]_vars

NextRpcList ==
    \/ list_disks_request \/ SafeToRemoveRequest
    \/ daemon_replies \/ daemon_fails_list \/ receive

\* A client that lists the disks and asks whether one is safe to remove, and
\* a daemon whose list may fail.
SpecRpcList == InitLedger /\ [][NextRpcList]_vars

RpcFunctions ==
    {"add_disk_request", "remove_disk_request", "list_disks_request",
     "safe_to_remove_request", "get_jira_tickets"}

Connect ==
    \E failed \in {None} \cup {Some(Steps("connect")[i]) : i \in 1..6} : connect(failed)

SendFails == \E function \in RpcFunctions, i \in 1..3 : send_fails(function, Steps(function)[i])

ReceiveFails == \E i \in 4..5 : receive_fails(Steps("add_disk_request")[i])

NextRpcFaulty ==
    \/ Connect \/ SendFails \/ ReceiveFails
    \/ running /\ AddDiskRequest
    \/ running /\ RemoveDiskRequest
    \/ running /\ list_disks_request
    \/ running /\ SafeToRemoveRequest
    \/ running /\ get_jira_tickets
    \/ running /\ daemon_replies
    \/ running /\ receive

\* The client and the daemon on a transport in which every step of connect
\* and of a request function may fail.
SpecRpcFaulty == InitLedger /\ [][NextRpcFaulty]_vars

AssumeOperationId == \E s \in OpSlots, id \in PresetIds : assume_operation_id(s, id)

AssumeOpDetailId == \E s \in DetailSlots, id \in PresetIds : assume_op_detail_id(s, id)

\* OperationDetail::new for an Operation of the store.
NewDetailOfStoredOperation ==
    \E o \in operations :
        new_operation_detail("op_detail", o.operation_id, "WaitingForReplacement")

NextBestEffort ==
    \/ NewOperationInfo({"op_info"}, {1}, {1}) \/ AssumeOperationId \/ SetSnapshotTime
    \/ AddOrUpdateOperation \/ NewDetailOfStoredOperation \/ AssumeOpDetailId
    \/ SetOperationStatus \/ AddOrUpdateOperationDetail

\* One Operation and one detail whose structs may hold ids that no row has.
SpecBestEffort == InitLedger /\ [][NextBestEffort]_vars

ReassignOperationDetail == \E s \in DetailSlots : reassign_operation_detail(s)

NextDetailUpdates ==
    \/ NewOperationInfo({"op_info"}, {1}, {1}) \/ AddOrUpdateOperation
    \/ NewOperationDetail({"op_detail"}, {"WaitingForReplacement"})
    \/ SetTrackingId \/ SetOperationStatus \/ SetDetailDoneTime
    \/ ReassignOperationDetail \/ AddOrUpdateOperationDetail

\* One detail of one Operation, stored and then updated from a struct whose
\* public fields the caller may have rewritten.
SpecDetailUpdates == InitLedger /\ [][NextDetailUpdates]_vars

\* Two callers, each with a BlockDevice struct of its own for a disk of
\* the host: for the same disk or for different ones.
ConcurrentReconcilers == [Callers -> {idle_caller(d) : d \in DOMAIN BlockDevice}]

InitConcurrentInventory == InitHardwareFor({{}}, ConcurrentReconcilers)

AddDiskDetailSelect == \E c \in DOMAIN callers : add_disk_detail_select(c)

AddDiskDetailReturn == \E c \in DOMAIN callers : add_disk_detail_return(c)

NextConcurrentInventory == AddDiskDetailSelect \/ AddDiskDetailReturn

\* Two callers that reconcile their disks at the same time.
SpecConcurrentInventory == InitConcurrentInventory /\ [][NextConcurrentInventory]_vars

\* Two callers that register: the daemons of host-a and host-b, or two
\* daemons of one host.
ConcurrentRegistrars ==
    [Callers -> {idle_caller([pid |-> DaemonPid, s_info |-> s_info]) : s_info \in MyHost}]

InitConcurrentRegistrar == InitRegistrarFor(ConcurrentRegistrars)

RegisterBegin ==
    \E c \in DOMAIN callers :
        "s_info" \in DOMAIN callers[c].arg /\ update_storage_info_begin(c)

RegisterSteps(faults) ==
    \E c \in DOMAIN callers, fault \in faults :
        \/ update_storage_info_process_manager(c, fault = "process_manager")
        \/ update_storage_info_region(c, fault = "regions")
        \/ update_storage_info_storage_details(c, fault = "storage_details")
        \/ update_storage_info_set_commit(c)

TransactionFinish(faults) ==
    \E c \in DOMAIN callers, fault \in faults : transaction_finish(c, fault = "commit")

CallerReturns == \E c \in DOMAIN callers : caller_returns(c)

NextConcurrentRegistrar ==
    \/ RegisterBegin \/ RegisterSteps({"none"}) \/ TransactionFinish({"none"})
    \/ CallerReturns

\* Two callers that register at the same time on a healthy store.
SpecConcurrentRegistrar == InitConcurrentRegistrar /\ [][NextConcurrentRegistrar]_vars

\* A daemon that registers while another thread saves the state and the
\* health of the disk sda, with a struct that knows the disk's id or not.
Transactors ==
    {[c1 |-> idle_caller([pid |-> DaemonPid, s_info |-> s_info]),
      c2 |-> [idle_caller([disk |-> "sda"]) EXCEPT !.device_database_id = id]]
        : s_info \in MyHost, id \in {None, Some(1)}}

InitTransactions == InitHardwareFor(StoredHardware, Transactors)

SaveBegin ==
    \E c \in DOMAIN callers :
        /\ "disk" \in DOMAIN callers[c].arg
        /\ \/ \E state \in State : save_state_begin(c, state)
           \/ \E smart_passed \in BOOLEAN : save_smart_result_begin(c, smart_passed)

SaveExecute(faults) ==
    \E c \in DOMAIN callers, fault \in faults : save_execute(c, fault = "update")

NextTransactions ==
    \/ RegisterBegin \/ RegisterSteps(RegistrationFaults)
    \/ SaveBegin \/ SaveExecute(SaveFaults)
    \/ TransactionFinish({"none", "commit"}) \/ CallerReturns

\* The three calls that open a transaction, statement by statement, on a
\* store in which a statement or a COMMIT may fail.
SpecTransactions == InitTransactions /\ [][NextTransactions]_vars

\* The serial numbers a caller asks about: none, the serial number of the
\* disk sda of host 1, and its uuid.
SerialNumbers == {None, Some("123456"), Some("uuid-a")}

IsHardwareWaitingRepair ==
    \E storage_detail_id \in {1, 2}, device_name \in {"sda", "sdb"},
       serial_number \in SerialNumbers :
        is_hardware_waiting_repair(storage_detail_id, device_name, serial_number)

NextWaitingRepair ==
    \/ NewOperationInfo({"op_info"}, {1}, {1, 2, 4}) \/ AddOrUpdateOperation
    \/ NewOperationDetail({"op_detail"}, {"WaitingForReplacement", "Evaluation"})
    \/ SetOperationStatus \/ AddOrUpdateOperationDetail
    \/ IsHardwareWaitingRepair

\* One Operation on a disk of either host, its detail, and the question
\* whether a disk waits for repair.
SpecWaitingRepair == InitLedger /\ [][NextWaitingRepair]_vars

\* More threads than the pool has connections, each asking again and again
\* whether the disk sda of host 1 waits for repair.
PoolCallers ==
    {[c \in 1..MaxCallers |->
         idle_caller([storage_detail_id |-> 1, device_name |-> "sda",
                      serial_number |-> None])]}

InitPool == InitLedgerFor({OperationTypes}, PoolCallers)

IsHardwareWaitingRepairBegin ==
    \E c \in DOMAIN callers : is_hardware_waiting_repair_begin(c)

PoolGetReturns == \E c \in DOMAIN callers : pool_get_returns(c)

PoolGetTimesOut == \E c \in DOMAIN callers : pool_get_times_out(c)

IsHardwareWaitingRepairReturn(faults) ==
    \E c \in DOMAIN callers, failed \in faults :
        is_hardware_waiting_repair_return(c, failed)

NextPool(faults) ==
    \/ IsHardwareWaitingRepairBegin \/ PoolGetReturns \/ PoolGetTimesOut
    \/ IsHardwareWaitingRepairReturn(faults)

\* Calls of more threads than the pool has connections, on a store in which
\* a query may fail.
SpecPool == InitPool /\ [][NextPool(BOOLEAN)]_vars

\* The same calls on a healthy store, under the scheduling the program runs
\* with: a thread that holds a connection runs on and its query returns, and
\* the timeout of a thread that waits in pool.get() elapses unless pool.get()
\* returns first.  Nothing makes the pool serve its waiters in turn.
SpecPoolFair ==
    /\ InitPool /\ [][NextPool({FALSE})]_vars
    /\ \A c \in 1..MaxCallers :
          /\ WF_vars(is_hardware_waiting_repair_return(c, FALSE))
          /\ WF_vars(pool_get_times_out(c))

NextFleet ==
    \/ NewOperationInfo(OpSlots, {1}, {1, 3, 4}) \/ AddOrUpdateOperation
    \/ NewOperationDetail(DetailSlots, {"WaitingForReplacement"})
    \/ SetTrackingId \/ AddOrUpdateOperationDetail
    \/ GetOutstandingRepairTickets \/ get_all_pending_tickets

\* Two Operations on disks of host 1 (sda, waiting for replacement, and sdc,
\* unscanned) and of host 2, their tickets, and the two ticket queries.
SpecFleet == InitLedger /\ [][NextFleet]_vars

\* The operation ids a caller passes to OperationDetail::new: the 0 that
\* test_db_apis makes of an OperationInfo without id, and the ids 1 and 2.
OperationIds == {0, 1, 2}

\* OperationDetail::new(operation_id, op_type): operation_id is any u32 the
\* caller passes.
NewDetailOfAnyOperation ==
    \E s \in DetailSlots, operation_id \in OperationIds :
        new_operation_detail(s, operation_id, "WaitingForReplacement")

NextParents ==
    \/ NewOperationInfo({"op_info"}, {1}, {1}) \/ AddOrUpdateOperation
    \/ NewDetailOfAnyOperation \/ AddOrUpdateOperationDetail

\* One Operation at most, and details made for any operation id.
SpecParents == InitLedger /\ [][NextParents]_vars

RegisterDaemon == \E s_info \in MyHost : update_storage_info(DaemonPid, s_info, "none")

\* The regions, storage types and hosts a caller looks up: those of MyHost
\* and, of each kind, one the store does not know.
GetRegionId == \E region_name \in {"us-east", "us-west", "eu-north"} : get_region_id(region_name)

GetStorageId == \E storage_type \in {"ceph", "scaleio"} : get_storage_id(storage_type)

GetStorageDetailId ==
    \E storage_id \in {1, 2}, region_id \in {1, 2}, host_name \in {"host-a", "host-b"} :
        get_storage_detail_id(storage_id, region_id, host_name)

GetHostName == \E device_id \in {1, 2} : get_host_name(device_id)

NextLookups ==
    \/ RegisterDaemon
    \/ GetRegionId \/ GetStorageId \/ GetStorageDetailId \/ GetHostName

\* The daemon registers its hosts and looks up what it has registered.
SpecLookups == InitHardwareWith(StoredHardware) /\ [][NextLookups]_vars

\* ----------------------------------------------------------------- claims
ProcessRows(k) == {r \in process_manager : r.pid = k[1] /\ r.ip = k[2]}

\* C1: every successful registration of one (pid, ip) returns the same
\* entry_id, and leaves exactly one process_manager row for that key, whose
\* status is 'idle'.
C1_RegisterIdempotent ==
    \A k \in Pids \X Ips :
        returned[k] # {} =>
            /\ Cardinality(returned[k]) = 1
            /\ Cardinality(ProcessRows(k)) = 1
            /\ \A r \in ProcessRows(k) : r.status = "idle" /\ r.entry_id \in returned[k]

\* A registration that found its (pid, ip) already registered has succeeded.
C1_Witness ==
    /\ ret.op = "update_storage_info" /\ ret.ok /\ ret.exists
    /\ returned[<<ret.pid, ret.s_info.ip>>] = {ret.entry_id}

TypeAbsent(s_info) == \A r \in storage_types : r.storage_type # s_info.storage_type

\* C2: a registration that resolves an id to zero (its storage type is not
\* in storage_types) or in which a statement fails returns an error and
\* leaves process_manager, regions and storage_details as they were.
C2_FailedRegistrationRollsBack ==
    [][(/\ ret'.op = "update_storage_info"
        /\ \/ TypeAbsent(ret'.s_info)
           \/ ret'.fault \in {"process_manager", "regions", "storage_details"})
       => /\ ~ret'.ok
          /\ UNCHANGED <<process_manager, regions, storage_details>>]_vars

\* A registration failed on a missing storage type after its transaction had
\* inserted a process_manager row, which is not in the committed table.
C2_Witness ==
    /\ ret.op = "update_storage_info" /\ ~ret.ok /\ ret.zero
    /\ ProcessRows(<<ret.pid, ret.s_info.ip>>) = {}
    /\ seq.process_manager > Cardinality(process_manager)

\* The hardware rows that carry the natural key of the struct d.
KeyRows(d) ==
    {r \in hardware : /\ r.device_path = BlockDevice[d].dev_path
                      /\ r.detail_id = BlockDevice[d].storage_detail_id
                      /\ r.device_name = BlockDevice[d].name}

\* C3: reconciling one natural key again and again, the struct's id kept
\* from an earlier call or cleared to None, succeeds every time, sets the
\* same device id every time and inserts no second row for the key.
C3_ReconcileIdempotent ==
    /\ \A d \in DOMAIN BlockDevice :
          /\ Cardinality(reconciled[d]) <= 1
          /\ Cardinality(KeyRows(d)) <= 1
    /\ (ret.op = "add_disk_detail" /\ ret.known \subseteq reconciled[ret.disk])
          => /\ ret.ok
             /\ disks[ret.disk].device_database_id = reconciled[ret.disk]
             /\ {r.device_id : r \in KeyRows(ret.disk)} = reconciled[ret.disk]

\* After a restart (the id cleared) a disk that was reconciled before has
\* been reconciled again without an insert.
C3_Witness ==
    /\ ret.op = "add_disk_detail" /\ ret.ok /\ ~ret.inserted /\ ret.known = None
    /\ disks[ret.disk].device_database_id # None
    /\ seq.hardware = 2

\* C4: add_disk_detail on a key that has a row, from a struct whose id is
\* Some(i) with i not the stored id, returns the mismatch error, inserts and
\* changes no row and leaves the struct's id as it was.
C4_MismatchIsReported ==
    [][\A d \in DOMAIN BlockDevice :
          (/\ ret'.op = "add_disk_detail" /\ ret'.disk = d
           /\ KeyRows(d) # {}
           /\ disks[d].device_database_id # None
           /\ \A r \in KeyRows(d) : disks[d].device_database_id # Some(r.device_id))
          => /\ ~ret'.ok /\ ret'.err = Some("didn't match")
             /\ UNCHANGED <<hardware, seq, disks>>]_vars

\* A reconciliation has failed on a struct that holds an id other than the
\* stored one, and the struct still holds it.
C4_Witness ==
    /\ ret.op = "add_disk_detail" /\ ~ret.ok
    /\ disks[ret.disk].device_database_id = ret.known
    /\ \E r \in KeyRows(ret.disk) : ret.known # Some(r.device_id)

\* C7: a save_state or save_smart_result whose UPDATE affects a number of
\* rows other than one returns an error and leaves every hardware row as it
\* was.
C7_RowCountGuard ==
    [][(/\ ret'.op \in {"save_state", "save_smart_result"}
        /\ ret'.updated # None /\ ret'.updated # Some(1))
       => ~ret'.ok /\ UNCHANGED hardware]_vars

\* A save on a struct whose id has no row: the UPDATE affected no row and
\* the call failed, while the table holds rows.
C7_Witness ==
    /\ ret.op \in {"save_state", "save_smart_result"}
    /\ ret.updated = Some(0) /\ ~ret.ok
    /\ hardware # {}

\* The state of the last save_state that returned Ok for the device id.
SavedState(dev_id) == {p[2] : p \in {q \in saved : q[1] = dev_id}}

\* C8: once save_state(device, s) has returned Ok, a get_state of the device
\* returns s until the next save_state of that device.
C8_SavedStateIsRead ==
    (ret.op = "get_state" /\ ret.ok /\ SavedState(Unwrap(ret.known)) # {})
        => Some(ret.state) = SavedState(Unwrap(ret.known))

\* C5: once an Operation row exists, no call changes its operation_id,
\* entry_id, device_id, behalf_of, reason or start_time, whatever the caller
\* has written into the OperationInfo; snapshot_time and done_time change
\* only to the values of the struct that add_or_update_operation is given.
C5_StoredOperationIsImmutable ==
    [][\A r \in operations :
          \E r2 \in operations' :
              /\ r2.operation_id = r.operation_id
              /\ r2.entry_id = r.entry_id /\ r2.device_id = r.device_id
              /\ r2.behalf_of = r.behalf_of /\ r2.reason = r.reason
              /\ r2.start_time = r.start_time
              /\ (r2.snapshot_time # r.snapshot_time \/ r2.done_time # r.done_time)
                    => /\ ret'.op = "add_or_update_operation" /\ ~ret'.inserted
                       /\ Unwrap(op_infos[ret'.slot]).operation_id = Some(r.operation_id)
                       /\ r2.snapshot_time = Unwrap(op_infos[ret'.slot]).snapshot_time
                       /\ r2.done_time \in {r.done_time,
                                            Unwrap(op_infos[ret'.slot]).done_time}]_vars

\* An update has just run with a struct whose entry_id and reason the caller
\* altered after the insert, and it moved snapshot_time and set done_time.
C5_Witness ==
    /\ ret.op = "add_or_update_operation" /\ ~ret.inserted /\ ret.updated = 1
    /\ \E r \in operations :
          /\ Some(r.operation_id) = Unwrap(op_infos[ret.slot]).operation_id
          /\ r.entry_id # Unwrap(op_infos[ret.slot]).entry_id
          /\ r.reason # Unwrap(op_infos[ret.slot]).reason
          /\ r.snapshot_time # r.start_time
          /\ r.done_time # None

\* The number of operation_types rows named as the op_type of the struct in
\* slot s.
TypeRows(s) ==
    Cardinality({t \in operation_types :
                    t.op_name = OperationType_to_string(Unwrap(op_details[s]).op_type)})

\* C6: add_or_update_operation_detail on a detail without an id fails,
\* inserts nothing and leaves op_detail_id None when operation_types holds
\* no row or several rows for its op_type; with exactly one row it inserts.
C6_TypeResolutionCardinality ==
    [][\A s \in DetailSlots :
          (/\ ret'.op = "add_or_update_operation_detail" /\ ret'.slot = s
           /\ Unwrap(op_details[s]).op_detail_id = None)
          => IF TypeRows(s) # 1
             THEN /\ ~ret'.ok
                  /\ operation_details' = operation_details
                  /\ Unwrap(op_details'[s]).op_detail_id = None
             ELSE /\ ret'.ok
                  /\ Cardinality(operation_details') = Cardinality(operation_details) + 1
                  /\ Unwrap(op_details'[s]).op_detail_id # None]_vars

\* The insert of a detail has just failed on a duplicated reference row.
C6_Witness ==
    /\ ret.op = "add_or_update_operation_detail" /\ ~ret.ok
    /\ Unwrap(op_details[ret.slot]).op_detail_id = None
    /\ TypeRows(ret.slot) > 1
    /\ operation_details = {}

\* The operation_details rows that are open tickets of the host detail_id:
\* pending or in progress, of type waiting_for_replacement, with a tracking
\* id, on a disk of that host whose state is waiting_for_replacement or good.
OpenTickets(detail_id) ==
    {d \in operation_details :
        /\ d.status \in {"pending", "in_progress"}
        /\ \E t \in operation_types :
              t.type_id = d.type_id /\ t.op_name = "waiting_for_replacement"
        /\ d.tracking_id # None
        /\ \E o \in operations, h \in hardware :
              /\ o.operation_id = d.operation_id /\ h.device_id = o.device_id
              /\ h.state \in {"waiting_for_replacement", "good"}
              /\ h.detail_id = detail_id}

\* The hardware row of the Operation that owns the operation_details row d.
DiskOf(d) ==
    CHOOSE h \in hardware :
        \E o \in operations : o.operation_id = d.operation_id /\ h.device_id = o.device_id

DetailRow(id) == CHOOSE d \in operation_details : d.operation_detail_id = id

OperationOf(id) ==
    CHOOSE o \in operations : o.operation_id = DetailRow(id).operation_id

\* C10 as stated: the tickets come in ascending order of the start times of
\* their operation_details rows.
C10_AscendingDetailStartTime ==
    (ret.op = "get_outstanding_repair_tickets" /\ ret.ok)
    => \A i, k \in DOMAIN ret.details :
          i < k => DetailRow(ret.details[i]).start_time
                      <= DetailRow(ret.details[k]).start_time

\* C10 as amended: the tickets come in ascending order of the start times of
\* the Operations that own their operation_details rows.
C10_AscendingOperationStartTime ==
    (ret.op = "get_outstanding_repair_tickets" /\ ret.ok)
    => \A i, k \in DOMAIN ret.details :
          i < k => OperationOf(ret.details[i]).start_time
                      <= OperationOf(ret.details[k]).start_time

\* The query has just returned the tickets of two Operations, the detail of
\* the older Operation being the younger detail.
C10_Witness ==
    /\ ret.op = "get_outstanding_repair_tickets" /\ ret.ok
    /\ Len(ret.details) = 2
    /\ OperationOf(ret.details[1]).start_time < OperationOf(ret.details[2]).start_time
    /\ DetailRow(ret.details[1]).start_time > DetailRow(ret.details[2]).start_time

\* C11: when resolve_ticket_in_db(tracking_id) has returned, every
\* operation_details row with that tracking id has status complete.
C11_ResolvedTicketIsComplete ==
    ret.op = "resolve_ticket_in_db"
    => \A r \in operation_details :
          r.tracking_id = Some(ret.ticket_id) => r.status = "complete"

\* The stored state of the disk the test has reconciled.
StoredStateOfTheDisk ==
    {r.state : r \in {h \in hardware :
                         Some(h.device_id) = disks[TheDisk].device_database_id}}

\* C12 as stated: at the end of the test's sequence the query returns
\* exactly one ticket, with tracking id "ABC-1234".
C12_OneTicketAfterTheSequence ==
    ret.op = "get_outstanding_repair_tickets"
    => /\ ret.ok /\ Len(ret.tickets) = 1
       /\ ret.tickets[1].ticket_id = "ABC-1234"

\* C12 as amended: the query returns exactly that ticket when the stored
\* state of the disk is waiting_for_replacement or good, and no ticket when
\* it is unscanned.
C12_OneTicketWhenDiskAwaitsRepair ==
    ret.op = "get_outstanding_repair_tickets"
    => /\ ret.ok
       /\ IF StoredStateOfTheDisk \subseteq {"waiting_for_replacement", "good"}
          THEN /\ Len(ret.tickets) = 1
               /\ ret.tickets[1].ticket_id = "ABC-1234"
               /\ ret.tickets[1].device_name = BlockDevice[TheDisk].name
          ELSE ret.tickets = <<>>

\* The test's disk, reconciled as unscanned, has been saved as waiting for
\* replacement and the query has returned its ticket.
C12_Witness ==
    /\ ret.op = "get_outstanding_repair_tickets"
    /\ BlockDevice[TheDisk].state = "Unscanned"
    /\ StoredStateOfTheDisk = {"waiting_for_replacement"}
    /\ Len(ret.tickets) = 1

\* The hardware rows with the id the last call's struct held.
KnownRows == {r \in hardware : Some(r.device_id) = ret.known}

\* The one row of rows, where there is exactly one.
TheRow(rows) == CHOOSE r \in rows : TRUE

C14_SmartResultOrFalse ==
    (ret.op = "get_smart_result" /\ ret.known # None)
    => /\ ret.ok
       /\ IF Cardinality(KnownRows) = 1 /\ TheRow(KnownRows).smart_passed # None
          THEN Some(ret.smart_passed) = TheRow(KnownRows).smart_passed
          ELSE ret.smart_passed = FALSE

\* C15: save_state, save_smart_result, get_state and get_smart_result on a
\* struct without device_database_id return an error and change no table.
C15_UnknownDiskIsAnError ==
    [][(/\ ret'.op \in {"save_state", "save_smart_result", "get_state",
                        "get_smart_result"}
        /\ ret'.known = None)
       => /\ ~ret'.ok
          /\ UNCHANGED <<registrar_tables, hardware_tables, ledger_tables>>]_vars

\* get_state has just refused a struct without id whose disk has a row.
C15_Witness ==
    /\ ret.op = "get_state" /\ ret.known = None /\ ~ret.ok
    /\ \E r \in hardware : r.device_name = BlockDevice[ret.disk].name

\* C16: add_or_update_operation on a struct without operation_id fails,
\* inserts nothing and leaves operation_id None when entry_id is 0;
\* otherwise it inserts exactly one row and stores that row's id in the
\* struct.
C16_EntryIdIsRequired ==
    [][\A s \in OpSlots :
          (/\ ret'.op = "add_or_update_operation" /\ ret'.slot = s
           /\ Unwrap(op_infos[s]).operation_id = None)
          => IF Unwrap(op_infos[s]).entry_id = 0
             THEN /\ ~ret'.ok
                  /\ operations' = operations
                  /\ Unwrap(op_infos'[s]).operation_id = None
             ELSE /\ ret'.ok
                  /\ \E r \in operations' \ operations :
                        /\ operations' = operations \cup {r}
                        /\ r.entry_id = Unwrap(op_infos[s]).entry_id
                        /\ Unwrap(op_infos'[s]).operation_id = Some(r.operation_id)]_vars

\* The insert of an Operation has just been refused for its entry_id 0.
C16_Witness ==
    /\ ret.op = "add_or_update_operation" /\ ~ret.ok
    /\ Unwrap(op_infos[ret.slot]).entry_id = 0
    /\ Unwrap(op_infos[ret.slot]).operation_id = None
    /\ operations = {}

\* The request functions that decode a result envelope.
EnvelopeFunctions ==
    {"add_disk_request", "remove_disk_request", "safe_to_remove_request",
     "get_jira_tickets"}

NotSetErrors ==
    {"Add disk failed but error_msg not set", "Remove disk failed but error_msg not set",
     "Get jira tickets failed but error_msg not set"}

\* C18: an ERR reply without error message makes the function return an
\* 'error message not set' error, which no ERR reply with a message yields.
C18_MissingMessageIsDistinct ==
    (ret.op \in EnvelopeFunctions /\ ret.reply # None)
    => LET reply == Unwrap(ret.reply)
       IN  (reply.result = "ERR" /\ reply.error_msg = None)
              => /\ ~ret.ok
                 /\ ret.err # None
                 /\ Unwrap(ret.err) \in NotSetErrors
                 /\ Unwrap(ret.err) \notin ErrorMsgs

\* C19: a request is sent only when every earlier request has been answered
\* and its function has returned, and a function returns a result only by
\* consuming the one reply to the one request it sent.
C19_Lockstep ==
    [][/\ wire'.sent # wire.sent
            => /\ wire'.sent = wire.sent + 1
               /\ wire.sent = wire.received /\ wire.returned = wire.received
       /\ wire'.returned # wire.returned
            => /\ wire'.returned = wire.returned + 1
               /\ wire'.received = wire.received + 1
               /\ wire'.received = wire.sent
               /\ wire'.sent = wire.sent]_vars

\* The second call on the socket has returned.
C19_Witness ==
    /\ wire.sent = 2 /\ wire.received = 2 /\ wire.returned = 2
    /\ call = None

C21_StoredDetailIsImmutable ==
    [][\A r \in operation_details :
          \E r2 \in operation_details' :
              /\ r2.operation_detail_id = r.operation_detail_id
              /\ r2.operation_id = r.operation_id /\ r2.type_id = r.type_id
              /\ r2.start_time = r.start_time
              /\ r.tracking_id # None => r2.tracking_id # None
              /\ r.done_time # None => r2.done_time # None
              /\ r2 # r
                    => /\ ret'.op = "add_or_update_operation_detail" /\ ~ret'.inserted
                       /\ Unwrap(op_details[ret'.slot]).op_detail_id
                             = Some(r.operation_detail_id)
                       /\ r2.snapshot_time = Unwrap(op_details[ret'.slot]).snapshot_time
                       /\ r2.status = OperationStatus_to_string(
                                          Unwrap(op_details[ret'.slot]).status)
                       /\ r2.tracking_id \in {r.tracking_id,
                                              Unwrap(op_details[ret'.slot]).tracking_id}
                       /\ r2.done_time \in {r.done_time,
                                            Unwrap(op_details[ret'.slot]).done_time}]_vars

\* An update has just run from a struct whose parent, type, start time,
\* tracking id and done time the caller rewrote after the insert: the row
\* took the new status and kept the rest.
C21_Witness ==
    /\ ret.op = "add_or_update_operation_detail" /\ ~ret.inserted /\ ret.updated = 1
    /\ \E r \in operation_details :
          /\ Some(r.operation_detail_id) = Unwrap(op_details[ret.slot]).op_detail_id
          /\ r.operation_id # Unwrap(op_details[ret.slot]).operation_id
          /\ r.start_time # Unwrap(op_details[ret.slot]).start_time
          /\ r.tracking_id # None /\ Unwrap(op_details[ret.slot]).tracking_id = None
          /\ r.done_time # None /\ Unwrap(op_details[ret.slot]).done_time = None
          /\ r.status = "complete"

\* The callers whose struct is for the disk d and who have reconciled it.
ReconciledCallers(d) ==
    {c \in DOMAIN callers : /\ callers[c].arg = d /\ callers[c].pc = "idle"
                             /\ callers[c].result # None}

\* C22: whatever the interleaving of concurrent add_disk_detail calls, the
\* hardware table holds at most one row per natural key, and the callers
\* that have reconciled one key hold the same device_database_id.
C22_OneRowPerKeyUnderConcurrency ==
    \A d \in DOMAIN BlockDevice :
        /\ Cardinality(KeyRows(d)) <= 1
        /\ \A c1, c2 \in ReconciledCallers(d) :
              callers[c1].device_database_id = callers[c2].device_database_id

\* C23: whatever the interleaving of concurrent registrations, regions
\* holds at most one row per region_name and storage_details at most one
\* row per (storage_id, region_id, hostname).
C23_RegistrationKeepsKeysUnique ==
    /\ \A r1, r2 \in regions :
          r1.region_name = r2.region_name => r1.region_id = r2.region_id
    /\ \A d1, d2 \in storage_details :
          (/\ d1.storage_id = d2.storage_id /\ d1.region_id = d2.region_id
           /\ d1.hostname = d2.hostname)
          => d1.detail_id = d2.detail_id

\* C24: when update_storage_info has returned a HostDetailsMapping, rows
\* with the returned entry_id, region_id and storage_detail_id are in the
\* store.
C24_ReturnedMappingIsCommitted ==
    (ret.op = "update_storage_info" /\ ret.ok)
    => /\ \E r \in process_manager : r.entry_id = ret.entry_id
       /\ \E r \in regions : r.region_id = ret.region_id
       /\ \E r \in storage_details : r.detail_id = ret.storage_detail_id

C29_WaitingRepairBySerialNumber ==
    ret.op = "is_hardware_waiting_repair"
    => /\ ret.ok
       /\ ret.value <=>
             \E d \in operation_details, o \in operations, h \in hardware :
                /\ d.operation_id = o.operation_id /\ o.device_id = h.device_id
                /\ \E t \in operation_types :
                      t.type_id = d.type_id /\ t.op_name = "waiting_for_replacement"
                /\ h.device_name = ret.device_name /\ h.detail_id = ret.detail_id
                /\ h.state = "waiting_for_replacement"
                /\ ret.serial_number # None => h.serial_number = ret.serial_number

\* C26: every ledger call holds exactly one connection from the moment
\* get_connection_from_pool returned until the call returns, and none
\* before or after, whether it returned Ok or Err; at most max_size (10)
\* connections are checked out; when no call is running every connection is
\* back in the pool.
C26_OneConnectionPerCall ==
    /\ \A c \in DOMAIN callers :
          /\ callers[c].pc = "conn" => callers[c].conn = 1
          /\ callers[c].pc \in {"idle", "pool.get"} => callers[c].conn = 0
    /\ checked_out <= max_size
    /\ (\A c \in DOMAIN callers : callers[c].pc = "idle") => checked_out = 0

\* A call has failed and given its connection back, and the pool is
\* exhausted again.
C26_Witness ==
    /\ checked_out = max_size
    /\ ret.op = "is_hardware_waiting_repair" /\ ~ret.ok /\ ~ret.timed_out
    /\ \E c \in DOMAIN callers : callers[c].pc = "idle"

\* C27: no caller asks for a second connection while it holds one, and no
\* caller stays in its call forever: whenever a caller waits on the
\* exhausted pool, or holds a connection, it is later out of the call (it got
\* a connection and its call returned, or the acquisition timed out).
C27_BlockedCallerGetsOut ==
    /\ [](\A c \in DOMAIN callers : callers[c].pc = "pool.get" => callers[c].conn = 0)
    /\ \A c \in 1..MaxCallers : []<>(callers[c].pc = "idle")

\* The pool is exhausted, a caller waits, and the acquisition of another has
\* timed out.
C27_Witness ==
    /\ checked_out = max_size
    /\ \E c \in DOMAIN callers : callers[c].pc = "pool.get"
    /\ ret.op = "is_hardware_waiting_repair" /\ ret.timed_out

\* C28: an update by add_or_update_operation_detail is never refused for the
\* status the row holds and leaves the row with the status of the struct,
\* whatever the row held: the order pending, in_progress, complete is not
\* enforced, and a completed ticket that is set back is an open ticket of its
\* host again.
C28_StatusSetFromAnyToAny ==
    (ret.op = "add_or_update_operation_detail" /\ ~ret.inserted
        /\ Unwrap(op_details[ret.slot]).op_detail_id # None)
    => LET operation_detail == Unwrap(op_details[ret.slot])
       IN  /\ ret.ok
           /\ \A r \in operation_details :
                 Some(r.operation_detail_id) = operation_detail.op_detail_id
                 => r.status = OperationStatus_to_string(operation_detail.status)

\* A completed ticket of host 1 has just been set back to pending, and is an
\* open ticket of the host again.
C28_Witness ==
    /\ ret.op = "add_or_update_operation_detail" /\ ret.ok
    /\ ret.replaced = {"complete"}
    /\ \E r \in OpenTickets(1) :
          /\ Some(r.operation_detail_id) = Unwrap(op_details[ret.slot]).op_detail_id
          /\ r.status = "pending"

\* The host (storage detail) of the disk device_id.
HostOfDevice(device_id) == (CHOOSE h \in hardware : h.device_id = device_id).detail_id

\* The start time of the Operation that owns the operation_details row id.
OperationStartOf(id) ==
    (CHOOSE o \in operations : o.operation_id = DetailRow(id).operation_id).start_time

RECURSIVE PendingOfHost(_, _, _)
\* The tickets from position i on of the fleet-wide result r whose disk
\* belongs to the host detail_id, in the order of r, each with the
\* operation_details row it was made from.
PendingOfHost(r, detail_id, i) ==
    IF i > Len(r.tickets) THEN <<>>
    ELSE (IF HostOfDevice(r.tickets[i].device_id) = detail_id
          THEN <<[detail |-> r.details[i],
                  ticket |-> [ticket_id |-> r.tickets[i].ticket_id,
                              device_name |-> r.tickets[i].device_name,
                              device_path |-> r.tickets[i].device_path]]>>
          ELSE <<>>) \o PendingOfHost(r, detail_id, i + 1)

\* The tickets of the per-host result r, each with its row.
OutstandingOf(r) ==
    [i \in DOMAIN r.tickets |-> [detail |-> r.details[i], ticket |-> r.tickets[i]]]

\* get_all_pending_tickets has returned and the next call, on the same
\* store, is get_outstanding_repair_tickets.
FleetThenHost ==
    /\ ret.op = "get_all_pending_tickets" /\ ret.ok
    /\ ret'.op = "get_outstanding_repair_tickets" /\ ret'.ok

\* C30 as stated: the tickets of get_outstanding_repair_tickets(d) are the
\* tickets of get_all_pending_tickets() whose disk belongs to d, in the same
\* relative order.
C30_HostTicketsAreFleetTicketsInOrder ==
    [][FleetThenHost => OutstandingOf(ret') = PendingOfHost(ret, ret'.detail_id, 1)]_vars

\* C30: the tickets of get_outstanding_repair_tickets(d) are exactly the
\* tickets of get_all_pending_tickets() whose disk belongs to d, and two of
\* them whose Operations started at different times come in the same order in
\* both results (tickets of Operations of one start time may be swapped).
C30_HostTicketsAreFleetTickets ==
    [][FleetThenHost =>
          LET mine == PendingOfHost(ret, ret'.detail_id, 1)
              theirs == OutstandingOf(ret')
          IN  /\ Len(theirs) = Len(mine)
              /\ {theirs[i] : i \in DOMAIN theirs} = {mine[i] : i \in DOMAIN mine}
              /\ \A i, k \in DOMAIN theirs :
                    (i < k /\ OperationStartOf(theirs[i].detail)
                                 # OperationStartOf(theirs[k].detail))
                    => \E a, b \in DOMAIN mine :
                          a < b /\ mine[a] = theirs[i] /\ mine[b] = theirs[k]]_vars

\* The per-host query has returned the one ticket of host 1 while host 2
\* has an open ticket too, which the fleet-wide query returns beside it.
C30_Witness ==
    /\ ret.op = "get_outstanding_repair_tickets" /\ ret.ok
    /\ ret.detail_id = 1 /\ Len(ret.tickets) = 1
    /\ OpenTickets(2) # {}

C32_DetailHasOneOperation ==
    \A d \in operation_details :
        Cardinality({o \in operations : o.operation_id = d.operation_id}) = 1

\* The ids a lookup that has just returned should have found: those of the
\* rows that match its arguments.
Looked(r) ==
    CASE r.op = "get_region_id" ->
            {q.region_id : q \in {x \in regions : x.region_name = r.region_name}}
      [] r.op = "get_storage_id" ->
            {q.storage_id : q \in {x \in storage_types : x.storage_type = r.storage_type}}
      [] r.op = "get_storage_detail_id" ->
            {q.detail_id : q \in {x \in storage_details :
                                     /\ x.storage_id = r.storage_id
                                     /\ x.region_id = r.region_id
                                     /\ x.hostname = r.host_name}}
      [] r.op = "get_host_name" ->
            {q.hostname : q \in {x \in storage_details :
                                    \E h \in hardware : /\ h.detail_id = x.detail_id
                                                         /\ h.device_id = r.device_id}}

Lookups == {"get_region_id", "get_storage_id", "get_storage_detail_id", "get_host_name"}

\* C33: the four lookups change no table and no sequence; each returns
\* Ok(None) when no row matches and otherwise Ok(Some) of the id of a
\* matching row, so that after a registration get_region_id and
\* get_storage_detail_id return the ids of the rows the registration wrote
\* or found (the ids of its HostDetailsMapping).
C33_LookupsReturnWhatIsStored ==
    /\ [](ret.op \in Lookups
            => /\ ret.ok
               /\ Looked(ret) = {} => ret.value = None
               /\ Looked(ret) # {} => ret.value # None /\ Unwrap(ret.value) \in Looked(ret))
    /\ [][ret'.op \in Lookups
            => UNCHANGED <<registrar_tables, hardware_tables, ledger_tables, seq>>]_vars

\* C34: list_disks_request returns an error, never a disk list, when the
\* reply of the daemon is an ERR result.
C34_ListFailureIsAnError ==
    (ret.op = "list_disks_request" /\ ret.reply # None
        /\ Unwrap(ret.reply).result = "ERR")
    => ~ret.ok

\* The last call is one of the RPC client in which a step failed.
FailedCall == "failed" \in DOMAIN ret /\ ret.failed # None

\* C35: a failure to connect, to encode the request, to send it, to receive
\* the reply or to decode it is returned to the caller as an Err: neither
\* connect nor a request function panics on it, and the failing call sends
\* no request again.
C35_FailuresAreReturned ==
    /\ [](FailedCall => ret.outcome = "Err" /\ ~ret.ok)
    /\ [][FailedCall' /\ ret' # ret => wire'.sent = wire.sent /\ socket'.outbox = socket.outbox]_vars

\* The operation kind of each request function.
KindOf(function) ==
    CASE function = "add_disk_request" -> "Add"
      [] function = "remove_disk_request" -> "Remove"
      [] function = "list_disks_request" -> "List"
      [] function = "safe_to_remove_request" -> "SafeToRemove"
      [] function = "get_jira_tickets" -> "GetCreatedTickets"

\* The envelope that the call in progress has sent and the daemon has not
\* taken yet.
Envelope == Unwrap(socket.outbox)

\* The envelope sent carries the text of `path` and the flag `simulate`, and
\* an osd_id, that of `id`, exactly if `id` is one.
CarriesDisk(o, path, id, simulate) ==
    /\ o.disk = Some(display(path))
    /\ o.simulate = Some(simulate)
    /\ (o.osd_id # None) <=> (id # None)
    /\ o.osd_id = id

\* C36: the envelope a request function sends has the Op_type of the
\* function's own kind; that of add_disk_request and remove_disk_request
\* has the disk path and the simulate flag, and an osd_id if and only if the
\* caller gave an id; that of safe_to_remove_request has the disk path and
\* neither simulate nor osd_id.
C36_EnvelopeOfItsKind ==
    /\ [](call # None /\ socket.outbox # None =>
            /\ Envelope.Op_type = KindOf(Unwrap(call))
            /\ Envelope.Op_type \in {"Add", "Remove"} =>
                   Envelope.disk # None /\ Envelope.simulate # None
            /\ Envelope.Op_type = "SafeToRemove" =>
                   Envelope.disk # None /\ Envelope.simulate = None
                                        /\ Envelope.osd_id = None)
    /\ [][\A path \in Paths, id \in OsdIds, simulate \in BOOLEAN :
            /\ add_disk_request(path, id, simulate) =>
                   CarriesDisk(Envelope', path, id, simulate)
            /\ remove_disk_request(path, id, simulate) =>
                   CarriesDisk(Envelope', path, id, simulate)
            /\ safe_to_remove_request(path) => Envelope'.disk = Some(display(path))]_vars

\* remove_disk_request without an id has sent an envelope without osd_id.
C36_Witness ==
    /\ call = Some("remove_disk_request") /\ socket.outbox # None
    /\ Envelope.Op_type = "Remove" /\ Envelope.osd_id = None
    /\ Envelope.disk # None /\ Envelope.simulate = Some(TRUE)
====
